---- MODULE Spec2Model ----
(***************************************************************************)
(* kcmd: the terminal UI that runs commands in a pod container through     *)
(* stateless "kubectl exec" calls (internal/tui, internal/kubectl and the  *)
(* main package that runs the bubbletea program and then tears down).      *)
(*                                                                         *)
(* A Go string is modelled as a text: a sequence of atoms (pieces of the   *)
(* string).  Concatenation is \o, "" is << >>, and the string functions    *)
(* of the code (Contains, HasPrefix, TrimSpace) work on the atoms.  An     *)
(* atom is a blank " ", a newline "\n", or a piece without white space;    *)
(* the pieces between two white-space atoms make up one word.              *)
(*                                                                         *)
(* The event loop of bubbletea handles one message at a time: every        *)
(* action below is one Update call (one message) or one step of the        *)
(* environment (a background command finishing, the loop failing).         *)
(***************************************************************************)
EXTENDS Integers, Sequences, FiniteSets, Bags, TLC

VARIABLES
  m,          \* the tui.Model the event loop currently holds
  inflight,   \* the bag of tea.Cmds running in goroutines
  label,      \* cluster: namespace -> value of the enforce label ("" = absent)
  containers, \* cluster: the ephemeral containers created, in creation order
  phase,      \* "running" | "done" (exit 0 after teardown) | "failed" (exit 1)
  eff,        \* what the last handled message did: calls made, commands dispatched
  td,         \* what main's teardown did: policy writes issued, notice printed
  clip,       \* the text last handed to the clipboard program
  sess,       \* number of retargets so far (identifies the session)
  elev,       \* namespace -> label value before the program first wrote "privileged"
  firstOrig,  \* label value read before the first elevation of this session
  ncmd        \* number of command lines the user has had the program run

vars == <<m, inflight, label, containers, phase, eff, td, clip, sess, elev, firstOrig, ncmd>>

----------------------------------------------------------------------------
(* Bounds of the model *)

MaxCmds == 2
MaxRetargets == 1
MaxAttempts == 3
\* Bounds of the shell specification: the entries of the history, the lines
\* of the output and the atoms of the working directory.
MaxHist == 3
MaxLog == 4
MaxDir == 4
\* Bound of the copy specification: the lines of the output.
MaxCopyLog == 6
\* Bounds of the debug-shell specification: the lines of the output and the
\* entries of the history.
MaxDebugLog == 10
MaxDebugHist == 4
\* Bound of the wizard specification: the loads in flight.
MaxLoads == 2

(* Program constants *)

PollBudget == 30

----------------------------------------------------------------------------
(* Texts *)

T(a) == <<a>>

Empty == << >>

\* strings.Contains(s, sub)
Contains(s, sub) ==
  \E i \in 1..(Len(s) + 1) :
     /\ i + Len(sub) - 1 <= Len(s)
     /\ SubSeq(s, i, i + Len(sub) - 1) = sub

\* strings.HasPrefix(s, p)
HasPrefix(s, p) == Len(p) <= Len(s) /\ SubSeq(s, 1, Len(p)) = p

\* The white space of strings.TrimSpace and strings.Fields.
IsSpace(a) == a \in {" ", "\t", "\n", "\r"}

RECURSIVE TrimLeft(_)
TrimLeft(s) == IF s # Empty /\ IsSpace(Head(s)) THEN TrimLeft(Tail(s)) ELSE s

RECURSIVE TrimRight(_)
TrimRight(s) ==
  IF s # Empty /\ IsSpace(s[Len(s)]) THEN TrimRight(SubSeq(s, 1, Len(s) - 1)) ELSE s

\* strings.TrimSpace(s)
TrimSpace(s) == TrimRight(TrimLeft(s))

----------------------------------------------------------------------------
(* The cluster the program talks to: what exists there, and the texts the *)
(* cluster can answer with.                                               *)

Namespaces == {T("ns1"), T("ns2")}
Owners == {T("web")}
Pods == {T("pod1")}
PodContainers == {T("app")}

Privileged == T("privileged")
PolicyValues == {Empty, T("baseline"), Privileged}

\* stderr of a failed "kubectl exec"
StderrNoShell == <<"exec:", " ", "sh:", " ", "executable", " ", "file", " ", "not", " ", "found", " ", "in", " ", "$PATH">>
StderrNoCmd == <<"sh:", " ", "foo:", " ", "not", " ", "found">>
StderrOther == <<"No", " ", "such", " ", "file", " ", "or", " ", "directory">>

\* stderr of a failed replace of the ephemeralcontainers subresource
StderrPodSecurity == <<"violates", " ", "PodSecurity", " ", "restricted:latest">>
\* What kubectl prints when the replace is refused for another reason; the
\* line ends with a newline, as kubectl's messages do.
StderrForbidden == <<"Error", " ", "from", " ", "server", " ", "(Forbidden)", "\n">>

----------------------------------------------------------------------------
(* internal/kubectl *)

\* A SetPodSecurityPolicy without the removal form: it always sets the label.
SetPodSecurityPolicyArgsAlwaysSet(namespace, policy) ==
  <<T("label"), T("namespace"), namespace,
    T("pod-security.kubernetes.io/enforce=") \o policy, T("--overwrite")>>

\* The arguments SetPodSecurityPolicy hands to kubectl.
SetPodSecurityPolicyArgs(namespace, policy) ==
  IF policy = Empty
    THEN <<T("label"), T("namespace"), namespace,
           T("pod-security.kubernetes.io/enforce-")>>
    ELSE <<T("label"), T("namespace"), namespace,
           T("pod-security.kubernetes.io/enforce=") \o policy, T("--overwrite")>>

\* What "kubectl label namespace" does to the labels when it succeeds:
\* "key-" removes the label, "key=value --overwrite" sets it.
KubectlLabel(lbl, args) ==
  IF args[3] \notin DOMAIN lbl THEN lbl
  ELSE IF args[4] = T("pod-security.kubernetes.io/enforce-")
    THEN [lbl EXCEPT ![args[3]] = Empty]
    ELSE [lbl EXCEPT ![args[3]] = Tail(args[4])]

\* GetPodSecurityPolicy: ok is whether kubectl returned without error.
GetPodSecurityPolicy(lbl, namespace, ok) ==
  IF ~ok \/ namespace \notin DOMAIN lbl
    THEN [policy |-> Empty, err |-> TRUE]
    ELSE [policy |-> TrimSpace(lbl[namespace]), err |-> FALSE]

\* A readiness poll that ends at the first attempt that finds the container
\* running, without the echo.
RECURSIVE PollRunningOnly(_, _, _)
PollRunningOnly(i, runningAt, echoAt) ==
  IF i > PollBudget THEN [attempts |-> PollBudget, ready |-> FALSE]
  ELSE IF i >= runningAt THEN [attempts |-> i, ready |-> TRUE]
  ELSE PollRunningOnly(i + 1, runningAt, echoAt)

\* The readiness poll of CreateDebugContainer: the status query of attempt i
\* reports the container running from attempt runningAt on, and "echo ready"
\* run in the container succeeds from attempt echoAt on.  The loop ends at
\* the first attempt where both hold, or with the budget.
RECURSIVE Poll(_, _, _)
Poll(i, runningAt, echoAt) ==
  IF i > PollBudget THEN [attempts |-> PollBudget, ready |-> FALSE]
  ELSE IF i >= runningAt /\ i >= echoAt THEN [attempts |-> i, ready |-> TRUE]
  ELSE Poll(i + 1, runningAt, echoAt)

\* A choice of the execution mode that looks at the error of the probe only.
NamespaceEntryIgnoringOutput(nsenterErr, nsenterOut) == ~nsenterErr

\* Whether the nsenter probe, which returned nsenterOut and the error
\* nsenterErr, makes CreateDebugContainer choose the namespace-entry mode.
NamespaceEntry(nsenterErr, nsenterOut) == ~nsenterErr /\ TrimSpace(nsenterOut) # Empty

\* The answers of the cluster to one run of CreateDebugContainer.
Answer(getPod, replaceErr, runningAt, echoAt, nsenterErr, nsenterOut) ==
  [getPod |-> getPod, replaceErr |-> replaceErr, runningAt |-> runningAt,
   echoAt |-> echoAt, nsenterErr |-> nsenterErr, nsenterOut |-> nsenterOut]

NsenterRoot == <<"NSENTER:", "1">>
ProcRoot == <<"/proc/", "1", "/root">>

NoErr == Empty

\* CreateDebugContainer(namespace, pod, targetContainer) under the
\* environment's answers e: getPod (the pod could be read), replaceErr
\* (stderr of the replace call, Empty when it succeeded), runningAt and
\* echoAt (the answers to the poll), nsenterErr and nsenterOut (the answer to
\* the nsenter probe).
\* n is the number the container's name is made unique with (the clock).
CreateDebugContainer(n, e) ==
  LET debugName == <<"kcmd-debug-", ToString(n)>>
      poll == Poll(1, e.runningAt, e.echoAt)
  IN IF ~e.getPod
       THEN [DebugContainer |-> Empty, TargetRoot |-> Empty,
             Err |-> <<"failed", " ", "to", " ", "get", " ", "pod:", " ", "exit", " ", "status", " ", "1">>,
             created |-> FALSE, ready |-> FALSE, polls |-> 0, probed |-> FALSE]
     ELSE IF e.replaceErr # Empty
       THEN [DebugContainer |-> Empty, TargetRoot |-> Empty,
             Err |-> <<"failed", " ", "to", " ", "create", " ", "ephemeral", " ", "container:", " ", "exit", " ", "status", " ", "1",
                       " ", "(stderr:", " ">> \o e.replaceErr \o <<")">>,
             created |-> FALSE, ready |-> FALSE, polls |-> 0, probed |-> FALSE]
     ELSE [DebugContainer |-> debugName,
           TargetRoot |-> IF NamespaceEntry(e.nsenterErr, e.nsenterOut)
                            THEN NsenterRoot ELSE ProcRoot,
           Err |-> NoErr,
           created |-> TRUE, ready |-> poll.ready, polls |-> poll.attempts,
           probed |-> TRUE]

----------------------------------------------------------------------------
(* internal/tui: the model *)

TypeList == {T("pod"), T("deployment"), T("statefulset")}

InitialModel ==
  [Step |-> "StepPickNS",
   Namespace |-> Empty, Rtype |-> Empty,
   OwnerName |-> Empty, PodName |-> Empty, Container |-> Empty,
   LstItems |-> {}, LstTitle |-> "Velg namespace",
   Input |-> Empty, Loading |-> FALSE,
   Output |-> << >>, OutputLines |-> << >>, AutocompleteWords |-> {},
   History |-> << >>, HistIdx |-> -1,
   LastErr |-> Empty, CurrentDir |-> Empty,
   UseDebugContainer |-> FALSE, DebugContainer |-> Empty, TargetRoot |-> Empty,
   OriginalPodSecurityPolicy |-> Empty, ChangedPodSecurityPolicy |-> FALSE]

\* SetList(title, values)
SetList(mm, title, values) == [mm EXCEPT !.LstItems = values, !.LstTitle = title]

\* strings.Split(s, "\n")
RECURSIVE Split(_)
Split(s) ==
  IF \A i \in 1..Len(s) : s[i] # "\n" THEN <<s>>
  ELSE LET i == CHOOSE j \in 1..Len(s) :
                  s[j] = "\n" /\ \A k \in 1..(j - 1) : s[k] # "\n"
       IN <<SubSeq(s, 1, i - 1)>> \o Split(SubSeq(s, i + 1, Len(s)))

\* strings.Fields(line) as a set: cur is the word read so far.
RECURSIVE FieldsFrom(_, _)
FieldsFrom(line, cur) ==
  LET done == IF cur = "" THEN {} ELSE {cur}
  IN IF line = << >> THEN done
     ELSE IF IsSpace(Head(line)) THEN done \cup FieldsFrom(Tail(line), "")
     ELSE FieldsFrom(Tail(line), cur \o Head(line))

Fields(line) == FieldsFrom(line, "")

\* The words of a line that AppendOutput puts into the dictionary.  (Len
\* counts characters where the code counts bytes; the one piece that is not
\* ASCII, the one-character two-byte mark of the echo lines, is kept
\* out by both.)
DictionaryWords(line) ==
  {w \in Fields(line) : Len(w) > 2 /\ SubSeq(w, 1, 1) # "/"}

\* The loop of AppendOutput over the lines of s: a line "" is skipped unless
\* s ends with a newline; every other line is stored, its words are added
\* to the dictionary, and it is written with its number, the length of
\* OutputLines after storing it.
RECURSIVE AppendLines(_, _, _)
AppendLines(mm, lines, endsWithNewline) ==
  IF lines = << >> THEN mm
  ELSE LET line == Head(lines)
           stored == Append(mm.OutputLines, line)
           m1 == [mm EXCEPT !.OutputLines = stored,
                            !.AutocompleteWords = @ \cup DictionaryWords(line),
                            !.Output = Append(@, [num |-> Len(stored), line |-> line])]
       IN IF line = Empty /\ ~endsWithNewline
            THEN AppendLines(mm, Tail(lines), endsWithNewline)
            ELSE AppendLines(m1, Tail(lines), endsWithNewline)

\* AppendOutput(s)
AppendOutput(mm, s) ==
  IF s = Empty THEN mm
  ELSE AppendLines(mm, Split(s), s[Len(s)] = "\n")

RECURSIVE AppendAll(_, _)
AppendAll(mm, ls) ==
  IF ls = << >> THEN mm ELSE AppendAll(AppendOutput(mm, Head(ls)), Tail(ls))

----------------------------------------------------------------------------
(* The commands (tea.Cmd) the handlers dispatch.  Each runs in its own     *)
(* goroutine and reports back with one message.  sess, attempt and cause   *)
(* are not program state: they record which session dispatched the         *)
(* command, the how-manieth provisioning attempt of its fallback it is and *)
(* the command line whose ShellMissing result started that fallback.       *)

NoMsg == [kind |-> "none"]
NoCause == <<"-">>

\* runCommand(ns, pod, container, cmdline, currentDir, useDebug, debugContainer, targetRoot)
runCommand(ns, pod, container, cmdline, currentDir, useDebug, debugContainer, targetRoot, cause) ==
  [kind |-> "runCommand", ns |-> ns, pod |-> pod, container |-> container,
   cmdline |-> cmdline, currentDir |-> currentDir, useDebug |-> useDebug,
   debugContainer |-> debugContainer, targetRoot |-> targetRoot,
   step |-> "", sess |-> sess, attempt |-> 0, cause |-> cause, result |-> NoMsg]

\* createDebugContainerCmd(ns, pod, container)
createDebugContainerCmd(ns, pod, container, attempt, cause) ==
  [kind |-> "createDebugContainerCmd", ns |-> ns, pod |-> pod,
   container |-> container,
   cmdline |-> Empty, currentDir |-> Empty, useDebug |-> FALSE,
   debugContainer |-> Empty, targetRoot |-> Empty,
   step |-> "", sess |-> sess, attempt |-> attempt, cause |-> cause,
   result |-> NoMsg]

\* loadStep(s, m)
loadStep(s) ==
  [kind |-> "loadStep", ns |-> Empty, pod |-> Empty, container |-> Empty,
   cmdline |-> Empty, currentDir |-> Empty, useDebug |-> FALSE,
   debugContainer |-> Empty, targetRoot |-> Empty,
   step |-> s, sess |-> sess, attempt |-> 0, cause |-> NoCause, result |-> NoMsg]

\* The commands whose goroutine is still calling kubectl: how many there are.
Running(infl) ==
  BagCardinality([t \in {u \in BagToSet(infl) : u.result = NoMsg} |-> infl[t]])

RECURSIVE Dispatch(_, _)
Dispatch(infl, tasks) ==
  IF tasks = << >> THEN infl
  ELSE Dispatch(infl (+) SetToBag({Head(tasks)}), Tail(tasks))

\* The commands in flight without the one whose message is being handled.
Finish(infl, t) == infl (-) SetToBag({t})

\* What one Update call did: the message it handled, the kubectl calls it
\* made itself, the commands it returned and the lines it added to the output.
Effect(kind, msg, calls, dispatched, appended) ==
  [kind |-> kind, msg |-> msg, calls |-> calls, dispatched |-> dispatched,
   appended |-> appended]

NoEffect == Effect("none", NoMsg, << >>, << >>, << >>)

\* The lines the output `after` holds beyond those of `before`.
Appended(before, after) ==
  IF Len(after) >= Len(before)
    THEN SubSeq(after, Len(before) + 1, Len(after)) ELSE after


NoElev == <<"never elevated">>

----------------------------------------------------------------------------
(* internal/tui: Update, the result messages *)

MarkerExecNotFound == <<"executable", " ", "file", " ", "not", " ", "found">>
MarkerOCI == <<"OCI", " ", "runtime", " ", "exec", " ", "failed">>
MarkerNotFound == <<"not", " ", "found">>

\* A classification that knows the "OCI runtime exec failed" marker only.
IsShellMissingOCIOnly(mm, msg) ==
  /\ msg.Err
  /\ ~mm.UseDebugContainer
  /\ Contains(msg.Stderr, MarkerOCI)

\* The condition under which Update treats a CmdResultMsg as "no shell".
IsShellMissing(mm, msg) ==
  /\ msg.Err
  /\ ~mm.UseDebugContainer
  /\ \/ Contains(msg.Stderr, MarkerExecNotFound)
     \/ Contains(msg.Stderr, MarkerOCI)
     \/ Contains(msg.Stderr, MarkerNotFound)

\* The condition under which Update treats a failed DebugContainerMsg as
\* caused by a restrictive PodSecurity policy.
IsRestrictive(err) ==
  \/ Contains(err, <<"runAsNonRoot">>)
  \/ Contains(err, <<"runAsUser=0">>)
  \/ Contains(err, <<"PodSecurity">>)

LineNoShell == <<"Container", " ", "has", " ", "no", " ", "shell.", " ", "Creating", " ", "ephemeral", " ", "debug", " ", "container...">>
LineFailedGet == <<"Failed", " ", "to", " ", "get", " ", "current", " ", "policy:", " ", "exit", " ", "status", " ", "1">>
LineFailedSet ==
  <<"Failed", " ", "to", " ", "change", " ", "policy:", " ", "failed", " ", "to", " ", "set", " ", "PodSecurity", " ", "policy:", " ", "exit", " ", "status", " ", "1">>
LineNeedPerm == <<"You", " ", "may", " ", "need", " ", "permissions", " ", "to", " ", "modify", " ", "namespace", " ", "labels.">>
\* The atom "(v)" stands for the check mark (three bytes, as the mark has).
LineChanged == <<"(v)", " ", "Changed", " ", "namespace", " ", "policy", " ", "to", " ", "'privileged'">>
LineWillRestore == <<"Policy", " ", "will", " ", "be", " ", "restored", " ", "to", " ", "original", " ", "on", " ", "quit.">>
LineBlocked == <<"Debug", " ", "container", " ", "creation", " ", "blocked", " ", "by", " ", "restricted", " ", "PodSecurity", " ", "policy">>
LineAttempting ==
  <<"Attempting", " ", "to", " ", "temporarily", " ", "change", " ", "namespace", " ", "policy", " ", "to", " ", "'privileged'...">>
LineChangedFromNone ==
  <<"Changed", " ", "namespace", " ", "from", " ", "no", " ", "policy", " ", "(unrestricted)", " ", "to", " ", "'privileged'">>
LineRetrying == <<"Retrying", " ", "debug", " ", "container", " ", "creation...">>
LineTesting == <<"Testing", " ", "filesystem", " ", "access...">>

\* The first line of a displayed command result.
LineHeader(msg) ==
  <<"»", " ">> \o msg.Cmd \o <<" ", " ", "(", "took", ")", " ", " ", "[">>
     \o (IF msg.Err THEN <<"ERR">> ELSE <<"OK">>) \o <<"]">>

GetCall(namespace, g) ==
  [fn |-> "GetPodSecurityPolicy", args |-> <<namespace>>, ok |-> ~g.err]

SetCall(namespace, policy, ok) ==
  [fn |-> "SetPodSecurityPolicy",
   args |-> SetPodSecurityPolicyArgs(namespace, policy), ok |-> ok]

\* The outcome of one handler: the model it returns, the labels of the
\* cluster after the calls it made, those calls, and the commands it returns.
Outcome(mm, lbl, calls, dispatched) ==
  [m |-> mm, label |-> lbl, calls |-> calls, dispatched |-> dispatched]

\* case CmdResultMsg, the "no shell" branch.  getOk and setOk are whether
\* the two kubectl calls of the branch succeed.
UpdateShellMissing(mm, lbl, msg, getOk, setOk) ==
  LET m1 == AppendOutput(mm, LineNoShell)
      g == GetPodSecurityPolicy(lbl, mm.Namespace, getOk)
      get == GetCall(mm.Namespace, g)
      set == SetCall(mm.Namespace, Privileged, setOk)
      create == createDebugContainerCmd(mm.Namespace, mm.PodName, mm.Container,
                                        1, msg.Cmd)
  IN IF g.err
       THEN Outcome(AppendOutput(m1, LineFailedGet), lbl, <<get>>, << >>)
     ELSE IF g.policy # Privileged
       THEN LET m2 == [AppendOutput(m1, <<"Namespace", " ", "policy", " ", "is", " ", "'">> \o g.policy
                                         \o <<"',", " ", "changing", " ", "to", " ", "'privileged'...">>)
                        EXCEPT !.OriginalPodSecurityPolicy = g.policy]
            IN IF ~setOk
                 THEN Outcome(AppendAll(m2, <<LineFailedSet, LineNeedPerm>>),
                              lbl, <<get, set>>, << >>)
                 ELSE Outcome([AppendAll(m2, <<LineChanged, LineWillRestore, Empty>>)
                                 EXCEPT !.ChangedPodSecurityPolicy = TRUE,
                                        !.Loading = TRUE],
                              KubectlLabel(lbl, set.args), <<get, set>>, <<create>>)
     ELSE Outcome([m1 EXCEPT !.Loading = TRUE], lbl, <<get>>, <<create>>)

\* case CmdResultMsg, the normal display of a result.
UpdateShowResult(mm, msg) ==
  LET m1 == IF msg.Err THEN [mm EXCEPT !.LastErr = TrimSpace(msg.Stderr)] ELSE mm
      m2 == AppendOutput(m1, LineHeader(msg))
      m3 == IF TrimSpace(msg.Stdout) # Empty THEN AppendOutput(m2, msg.Stdout) ELSE m2
      m4 == IF TrimSpace(msg.Stderr) # Empty THEN AppendOutput(m3, msg.Stderr) ELSE m3
  IN Outcome(m4, << >>, << >>, << >>)

\* case CmdResultMsg
UpdateCmdResult(mm, lbl, msg, getOk, setOk) ==
  LET m1 == [mm EXCEPT !.Loading = FALSE, !.LastErr = Empty]
  IN IF IsShellMissing(mm, msg)
       THEN UpdateShellMissing(m1, lbl, msg, getOk, setOk)
       ELSE [UpdateShowResult(m1, msg) EXCEPT !.label = lbl]

\* A restrictive branch that retries the provisioning although the write of
\* "privileged" failed.
UpdateRestrictiveRetryAnyway(mm, lbl, msg, getOk, setOk) ==
  LET m1 == AppendAll(mm, <<LineBlocked, Empty, LineAttempting>>)
      g == GetPodSecurityPolicy(lbl, mm.Namespace, getOk)
      get == GetCall(mm.Namespace, g)
      set == SetCall(mm.Namespace, Privileged, setOk)
      create == createDebugContainerCmd(mm.Namespace, mm.PodName, mm.Container,
                                        msg.attempt + 1, msg.cause)
      m2 == [m1 EXCEPT !.OriginalPodSecurityPolicy = g.policy]
  IN IF g.err
       THEN Outcome(AppendOutput(m1, LineFailedGet), lbl, <<get>>, << >>)
     ELSE Outcome([AppendAll(m2, <<LineFailedSet, LineNeedPerm, LineRetrying>>)
                     EXCEPT !.Loading = TRUE],
                  IF setOk THEN KubectlLabel(lbl, set.args) ELSE lbl,
                  <<get, set>>, <<create>>)

\* case DebugContainerMsg with an error that matches a restrictive policy.
UpdateRestrictive(mm, lbl, msg, getOk, setOk) ==
  LET m1 == AppendAll(mm, <<LineBlocked, Empty, LineAttempting>>)
      g == GetPodSecurityPolicy(lbl, mm.Namespace, getOk)
      get == GetCall(mm.Namespace, g)
      set == SetCall(mm.Namespace, Privileged, setOk)
      create == createDebugContainerCmd(mm.Namespace, mm.PodName, mm.Container,
                                        msg.attempt + 1, msg.cause)
      m2 == [m1 EXCEPT !.OriginalPodSecurityPolicy = g.policy]
      changed == IF g.policy = Empty THEN LineChangedFromNone
                 ELSE <<"Changed", " ", "namespace", " ", "policy", " ", "from", " ", "'">> \o g.policy
                         \o <<"'", " ", "to", " ", "'privileged'">>
  IN IF g.err
       THEN Outcome(AppendOutput(m1, LineFailedGet), lbl, <<get>>, << >>)
     ELSE IF ~setOk
       THEN Outcome(AppendAll(m2, <<LineFailedSet, LineNeedPerm>>),
                    lbl, <<get, set>>, << >>)
     ELSE Outcome([AppendAll(m2, <<changed, LineWillRestore, Empty, LineRetrying>>)
                     EXCEPT !.ChangedPodSecurityPolicy = TRUE, !.Loading = TRUE],
                  KubectlLabel(lbl, set.args), <<get, set>>, <<create>>)

\* The verification listing dispatched when the debug container is adopted.
TestCmd(targetRoot) == <<"ls", " ">> \o targetRoot \o <<" ", "2>&1", " ", "|", " ", "head", " ", "-5">>

\* case DebugContainerMsg without error: adopt the debug container.
UpdateAdopt(mm, msg) ==
  LET m1 == [mm EXCEPT !.UseDebugContainer = TRUE,
                       !.DebugContainer = msg.DebugContainer,
                       !.TargetRoot = msg.TargetRoot,
                       !.CurrentDir = <<"/">>]
      m2 == AppendAll(m1, <<<<"Debug", " ", "container", " ", "'">> \o msg.DebugContainer
                               \o <<"'", " ", "created.">>,
                            <<"Target", " ", "container", " ", "filesystem:", " ">> \o msg.TargetRoot,
                            Empty, LineTesting>>)
      test == runCommand(mm.Namespace, mm.PodName, mm.Container,
                         TestCmd(msg.TargetRoot), Empty, TRUE,
                         m1.DebugContainer, m1.TargetRoot, msg.cause)
  IN Outcome([m2 EXCEPT !.Loading = TRUE], << >>, << >>, <<test>>)

\* case DebugContainerMsg
UpdateDebugContainer(mm, lbl, msg, getOk, setOk) ==
  LET m1 == [mm EXCEPT !.Loading = FALSE]
      m2 == [m1 EXCEPT !.LastErr = msg.Err]
  IN IF msg.Err # NoErr
       THEN IF IsRestrictive(msg.Err)
              THEN UpdateRestrictive(m2, lbl, msg, getOk, setOk)
              ELSE Outcome(AppendOutput(m2, <<"Failed", " ", "to", " ", "create", " ", "debug", " ", "container:", " ">>
                                              \o msg.Err),
                           lbl, << >>, << >>)
       ELSE [UpdateAdopt(m1, msg) EXCEPT !.label = lbl]

----------------------------------------------------------------------------
(* internal/tui: Update, the keys of the shell step *)

\* A handleHistoryUp that starts at the oldest entry.
handleHistoryUpFromOldest(mm) ==
  IF Len(mm.History) = 0 THEN mm
  ELSE LET idx == IF mm.HistIdx = -1 THEN 0
                  ELSE IF mm.HistIdx > 0 THEN mm.HistIdx - 1
                  ELSE mm.HistIdx
       IN [mm EXCEPT !.HistIdx = idx, !.Input = mm.History[idx + 1]]

\* handleHistoryUp.  HistIdx is the index of the code (the first entry has
\* index 0, -1 is "not navigating"); History[i] of the code is History[i + 1].
handleHistoryUp(mm) ==
  IF Len(mm.History) = 0 THEN mm
  ELSE LET idx == IF mm.HistIdx = -1 THEN Len(mm.History) - 1
                  ELSE IF mm.HistIdx > 0 THEN mm.HistIdx - 1
                  ELSE mm.HistIdx
       IN [mm EXCEPT !.HistIdx = idx, !.Input = mm.History[idx + 1]]

\* handleHistoryDown leaving the newest entry for the index after it instead
\* of -1.
handleHistoryDownPastNewest(mm) ==
  IF Len(mm.History) = 0 THEN mm
  ELSE IF mm.HistIdx = -1 THEN mm
  ELSE IF mm.HistIdx < Len(mm.History) - 1
    THEN [mm EXCEPT !.HistIdx = mm.HistIdx + 1, !.Input = mm.History[mm.HistIdx + 2]]
  ELSE IF mm.HistIdx = Len(mm.History) - 1
    THEN [mm EXCEPT !.HistIdx = Len(mm.History), !.Input = Empty]
  ELSE [mm EXCEPT !.HistIdx = -1, !.Input = Empty]

\* handleHistoryDown
handleHistoryDown(mm) ==
  IF Len(mm.History) = 0 THEN mm
  ELSE IF mm.HistIdx = -1 THEN mm
  ELSE IF mm.HistIdx < Len(mm.History) - 1
    THEN [mm EXCEPT !.HistIdx = mm.HistIdx + 1, !.Input = mm.History[mm.HistIdx + 2]]
  ELSE [mm EXCEPT !.HistIdx = -1, !.Input = Empty]

\* strings.Fields(line) as a sequence of tokens, each the atoms of one word.
RECURSIVE FieldsSeqFrom(_, _)
FieldsSeqFrom(line, cur) ==
  LET done == IF cur = << >> THEN << >> ELSE <<cur>>
  IN IF line = << >> THEN done
     ELSE IF IsSpace(Head(line)) THEN done \o FieldsSeqFrom(Tail(line), << >>)
     ELSE FieldsSeqFrom(Tail(line), Append(cur, Head(line)))

FieldsSeq(line) == FieldsSeqFrom(line, << >>)

\* The Go string of a word: its atoms put together.
RECURSIVE Str(_)
Str(w) == IF w = << >> THEN "" ELSE Head(w) \o Str(Tail(w))

\* strings.Join(words, " ")
RECURSIVE JoinWords(_)
JoinWords(ws) ==
  IF ws = << >> THEN Empty
  ELSE IF Len(ws) = 1 THEN ws[1]
  ELSE ws[1] \o <<" ">> \o JoinWords(Tail(ws))

\* The position of the first "/" atom of the word w, 0 if it has none.
FirstSlash(w) ==
  IF \A i \in 1..Len(w) : w[i] # "/" THEN 0
  ELSE CHOOSE i \in 1..Len(w) : w[i] = "/" /\ \A j \in 1..(i - 1) : w[j] # "/"

\* strings.LastIndex(w, "/"): the position of the last "/" atom of the word
\* w, 0 if it has none.
LastSlash(w) ==
  IF \A i \in 1..Len(w) : w[i] # "/" THEN 0
  ELSE CHOOSE i \in 1..Len(w) : w[i] = "/" /\ \A j \in (i + 1)..Len(w) : w[j] # "/"

\* The characters in the order of their bytes, the order sort.Strings uses:
\* the printable ASCII characters (without the quotation mark, the backslash
\* and the backquote, which no word of the model holds), then the mark of
\* the echo lines.
ByteOrder ==
  <<
    "!", "#", "$", "%", "&", "'", "(", ")", "*", "+", ",", "-",
    ".", "/", "0", "1", "2", "3", "4", "5", "6", "7", "8", "9",
    ":", ";", "<", "=", ">", "?", "@", "A", "B", "C", "D", "E",
    "F", "G", "H", "I", "J", "K", "L", "M", "N", "O", "P", "Q",
    "R", "S", "T", "U", "V", "W", "X", "Y", "Z", "[", "]", "^",
    "_", "a", "b", "c", "d", "e", "f", "g", "h", "i", "j", "k",
    "l", "m", "n", "o", "p", "q", "r", "s", "t", "u", "v", "w",
    "x", "y", "z", "{", "|", "}", "~",
    "»">>

Rank(c) == CHOOSE i \in 1..Len(ByteOrder) : ByteOrder[i] = c

\* a < b for Go strings.
RECURSIVE StrLess(_, _)
StrLess(a, b) ==
  IF b = "" THEN FALSE
  ELSE IF a = "" THEN TRUE
  ELSE IF SubSeq(a, 1, 1) = SubSeq(b, 1, 1)
    THEN StrLess(SubSeq(a, 2, Len(a)), SubSeq(b, 2, Len(b)))
  ELSE Rank(SubSeq(a, 1, 1)) < Rank(SubSeq(b, 1, 1))

\* strings.HasPrefix(word, p) for Go strings.
StrHasPrefix(word, p) == Len(word) >= Len(p) /\ SubSeq(word, 1, Len(p)) = p

\* The last of the sorted matches.
LastSorted(matches) == CHOOSE w \in matches : \A v \in matches \ {w} : StrLess(v, w)

\* sort.Strings(matches); matches[0]
FirstSorted(matches) == CHOOSE w \in matches : \A v \in matches \ {w} : StrLess(w, v)

\* The remote calls of handleAutocomplete: ExecInDebugContainer in debug
\* mode, ExecInPod otherwise, with the command and the working directory,
\* and what the call returned: its stdout and whether it failed.
ExecCall(mm, cmd, out, err) ==
  [fn |-> IF mm.UseDebugContainer THEN "ExecInDebugContainer" ELSE "ExecInPod",
   cmd |-> cmd, currentDir |-> mm.CurrentDir, out |-> out, ok |-> ~err]

\* handleAutocomplete.  lookup is what the first-match listing returns (its
\* stdout and whether the call failed), isDirOut the stdout of the directory
\* test.  Returns the model and the remote calls made.
handleAutocomplete(mm, lookup, isDirOut) ==
  LET words == FieldsSeq(mm.Input)
      lastWord == words[Len(words)]
      lastSlash == LastSlash(lastWord)
      dirPath == IF lastSlash > 0 THEN SubSeq(lastWord, 1, lastSlash) ELSE <<".", "/">>
      partialFile == IF lastSlash > 0 THEN SubSeq(lastWord, lastSlash + 1, Len(lastWord))
                     ELSE lastWord
      listCmd == <<"for f in ">> \o dirPath \o partialFile \o <<"*; first that exists">>
      trimmed == TrimSpace(lookup.out)
      firstMatch == SubSeq(trimmed, LastSlash(trimmed) + 1, Len(trimmed))
      checkDirCmd == <<"[ -d ">> \o dirPath \o firstMatch \o <<" ]">>
      completed == firstMatch \o (IF TrimSpace(isDirOut) = <<"DIR">> THEN <<"/">> ELSE << >>)
      token == IF dirPath = <<".", "/">> THEN completed ELSE dirPath \o completed
      matches == {w \in mm.AutocompleteWords :
                    StrHasPrefix(w, Str(lastWord)) /\ w # Str(lastWord)}
      put(w) == [mm EXCEPT !.Input = JoinWords([words EXCEPT ![Len(words)] = w])]
      list == ExecCall(mm, listCmd, lookup.out, lookup.err)
  IN IF Len(words) = 0 THEN [m |-> mm, calls |-> << >>]
     ELSE IF ~lookup.err /\ lookup.out # Empty
       THEN [m |-> put(token),
             calls |-> <<list, ExecCall(mm, checkDirCmd, isDirOut, FALSE)>>]
     ELSE IF Len(Str(lastWord)) >= 2 /\ matches # {}
       THEN [m |-> put(<<FirstSorted(matches)>>), calls |-> <<list>>]
     ELSE [m |-> mm, calls |-> <<list>>]

\* strings.TrimPrefix(s, p)
TrimPrefix(s, p) == IF HasPrefix(s, p) THEN SubSeq(s, Len(p) + 1, Len(s)) ELSE s

\* A handleCdCommand that joins a relative argument without the separator.
handleCdCommandNoSeparator(mm, cmdline) ==
  LET newDir == TrimSpace(TrimPrefix(cmdline, <<"cd">>))
      dir == IF newDir = Empty \/ newDir = <<"~">> THEN Empty
             ELSE IF HasPrefix(newDir, <<"/">>) THEN newDir
             ELSE mm.CurrentDir \o newDir
      hist == IF mm.History = << >> \/ mm.History[Len(mm.History)] # cmdline
                THEN Append(mm.History, cmdline) ELSE mm.History
      m1 == [mm EXCEPT !.CurrentDir = dir, !.AutocompleteWords = {},
                       !.History = hist]
  IN AppendAll(m1, <<<<"»", " ">> \o cmdline,
                     <<"Working", " ", "directory:", " ">>
                        \o (IF dir = Empty THEN <<"~">> ELSE dir)>>)

\* handleCdCommand
handleCdCommand(mm, cmdline) ==
  LET newDir == TrimSpace(TrimPrefix(cmdline, <<"cd">>))
      dir == IF newDir = Empty \/ newDir = <<"~">> THEN Empty
             ELSE IF HasPrefix(newDir, <<"/">>) THEN newDir
             ELSE IF mm.CurrentDir = Empty THEN newDir
             ELSE mm.CurrentDir \o <<"/">> \o newDir
      hist == IF mm.History = << >> \/ mm.History[Len(mm.History)] # cmdline
                THEN Append(mm.History, cmdline) ELSE mm.History
      m1 == [mm EXCEPT !.CurrentDir = dir, !.AutocompleteWords = {},
                       !.History = hist]
  IN AppendAll(m1, <<<<"»", " ">> \o cmdline,
                     <<"Working", " ", "directory:", " ">>
                        \o (IF dir = Empty THEN <<"~">> ELSE dir)>>)

\* The integer a %d of Sscanf reads from one atom (0..9), -1 if it is none.
ScanInt(a) == IF \E n \in 0..9 : ToString(n) = a
                THEN CHOOSE n \in 0..9 : ToString(n) = a ELSE -1

\* fmt.Sscanf(rangeStr, "%d<sep>%d", &start, &end): what it has stored when
\* it stops at the first atom that does not match.
Sscanf2(r, sep) ==
  IF r = Empty \/ ScanInt(r[1]) < 0 THEN [start |-> 0, end |-> 0]
  ELSE IF Len(r) < 3 \/ r[2] # sep \/ ScanInt(r[3]) < 0
    THEN [start |-> ScanInt(r[1]), end |-> 0]
  ELSE [start |-> ScanInt(r[1]), end |-> ScanInt(r[3])]

\* fmt.Sscanf(rangeStr, "%d", &start); endLine = startLine
Sscanf1(r) ==
  IF r = Empty \/ ScanInt(r[1]) < 0 THEN [start |-> 0, end |-> 0]
  ELSE [start |-> ScanInt(r[1]), end |-> ScanInt(r[1])]

\* A join that puts nothing between the lines.
RECURSIVE JoinLinesNoSeparator(_)
JoinLinesNoSeparator(ls) ==
  IF ls = << >> THEN Empty ELSE ls[1] \o JoinLinesNoSeparator(Tail(ls))

\* strings.Join(ls, "\n")
RECURSIVE JoinLines(_)
JoinLines(ls) ==
  IF ls = << >> THEN Empty
  ELSE IF Len(ls) = 1 THEN ls[1]
  ELSE ls[1] \o <<"\n">> \o JoinLines(Tail(ls))

NoClip == <<"nothing copied">>

LineInvalidRange(n) ==
  <<"Invalid", " ", "range.", " ", "Available", " ", "lines:", " ", "1-", ToString(n)>>

LineNoClipboard ==
  <<"No", " ", "clipboard", " ", "utility", " ", "found", " ", "(pbcopy/xclip/xsel/clip.exe)">>

LineFailedCopy == <<"Failed", " ", "to", " ", "copy:", " ", "exit", " ", "status", " ", "1">>

LineCopied(n) ==
  <<"(v)", " ", "Copied", " ", ToString(n), " ", "line(s)", " ", "to", " ", "clipboard">>

\* A handleCopyCommand that does not compare the end of the range with the
\* number of lines.
handleCopyCommandNoUpperCheck(mm, cb, cmdline, tool, ran) ==
  LET rangeStr == TrimSpace(TrimPrefix(cmdline, <<"/copy">>))
      rg == IF Contains(rangeStr, <<",">>) THEN Sscanf2(rangeStr, ",")
            ELSE IF Contains(rangeStr, <<"-">>) THEN Sscanf2(rangeStr, "-")
            ELSE Sscanf1(rangeStr)
      n == Len(mm.OutputLines)
      last == IF rg.end > n THEN n ELSE rg.end
  IN IF rg.start < 1 \/ rg.end < rg.start
       THEN [m |-> AppendOutput(mm, LineInvalidRange(n)), clip |-> cb]
     ELSE [m |-> AppendOutput(mm, LineCopied(rg.end - rg.start + 1)),
           clip |-> JoinLines(SubSeq(mm.OutputLines, rg.start, last))]

\* handleCopyCommand: tool is whether a clipboard program is found, ran
\* whether it ran without error.  Returns the model and clip, the text last
\* handed to a clipboard program on its standard input.
handleCopyCommand(mm, cb, cmdline, tool, ran) ==
  LET rangeStr == TrimSpace(TrimPrefix(cmdline, <<"/copy">>))
      rg == IF Contains(rangeStr, <<",">>) THEN Sscanf2(rangeStr, ",")
            ELSE IF Contains(rangeStr, <<"-">>) THEN Sscanf2(rangeStr, "-")
            ELSE Sscanf1(rangeStr)
      n == Len(mm.OutputLines)
      textToCopy == JoinLines(SubSeq(mm.OutputLines, rg.start, rg.end))
  IN IF rg.start < 1 \/ rg.end < rg.start \/ rg.end > n
       THEN [m |-> AppendOutput(mm, LineInvalidRange(n)), clip |-> cb]
     ELSE IF ~tool
       THEN [m |-> AppendOutput(mm, LineNoClipboard), clip |-> cb]
     ELSE IF ~ran
       THEN [m |-> AppendOutput(mm, LineFailedCopy), clip |-> textToCopy]
     ELSE [m |-> AppendOutput(mm, LineCopied(rg.end - rg.start + 1)),
           clip |-> textToCopy]

\* A handleCommand that records a command only if the history does not
\* hold it anywhere.
handleCommandNoRepeat(mm, cb, tool, ran) ==
  LET cmdline == TrimSpace(mm.Input)
      m1 == [mm EXCEPT !.Input = Empty, !.HistIdx = -1]
      hist == IF \A k \in 1..Len(mm.History) : mm.History[k] # cmdline
                THEN Append(mm.History, cmdline) ELSE mm.History
      rc(x, c, d, q) == [m |-> x, clip |-> c, dispatched |-> d, quit |-> q]
  IN IF cmdline = Empty THEN rc(mm, cb, << >>, FALSE)
     ELSE IF cmdline = <<"clear">>
       THEN rc([m1 EXCEPT !.Output = << >>, !.OutputLines = << >>], cb, << >>, FALSE)
     ELSE IF cmdline = <<"/quit">> THEN rc(m1, cb, << >>, TRUE)
     ELSE IF HasPrefix(cmdline, <<"/copy", " ">>)
       THEN LET c == handleCopyCommand(m1, cb, cmdline, tool, ran)
            IN rc(c.m, c.clip, << >>, FALSE)
     ELSE IF HasPrefix(cmdline, <<"cd", " ">>) \/ cmdline = <<"cd">>
       THEN rc(handleCdCommand(m1, cmdline), cb, << >>, FALSE)
     ELSE rc([m1 EXCEPT !.History = hist, !.Loading = TRUE], cb,
             <<runCommand(mm.Namespace, mm.PodName, mm.Container, cmdline,
                          mm.CurrentDir, mm.UseDebugContainer, mm.DebugContainer,
                          mm.TargetRoot, NoCause)>>,
             FALSE)

\* A handleCommand that records the line in the history before it looks for
\* the reserved forms.
handleCommandRecordsAll(mm, cb, tool, ran) ==
  LET cmdline == TrimSpace(mm.Input)
      hist == IF mm.History = << >> \/ mm.History[Len(mm.History)] # cmdline
                THEN Append(mm.History, cmdline) ELSE mm.History
      m1 == [mm EXCEPT !.Input = Empty, !.HistIdx = -1, !.History = hist]
      rc(x, c, d, q) == [m |-> x, clip |-> c, dispatched |-> d, quit |-> q]
  IN IF cmdline = Empty THEN rc(mm, cb, << >>, FALSE)
     ELSE IF cmdline = <<"clear">>
       THEN rc([m1 EXCEPT !.Output = << >>, !.OutputLines = << >>], cb, << >>, FALSE)
     ELSE IF cmdline = <<"/quit">> THEN rc(m1, cb, << >>, TRUE)
     ELSE IF HasPrefix(cmdline, <<"/copy", " ">>)
       THEN LET c == handleCopyCommand(m1, cb, cmdline, tool, ran)
            IN rc(c.m, c.clip, << >>, FALSE)
     ELSE IF HasPrefix(cmdline, <<"cd", " ">>) \/ cmdline = <<"cd">>
       THEN rc(handleCdCommand(m1, cmdline), cb, << >>, FALSE)
     ELSE rc([m1 EXCEPT !.Loading = TRUE], cb,
             <<runCommand(mm.Namespace, mm.PodName, mm.Container, cmdline,
                          mm.CurrentDir, mm.UseDebugContainer, mm.DebugContainer,
                          mm.TargetRoot, NoCause)>>,
             FALSE)

\* handleCommand: the model, the clipboard, the commands returned and
\* whether tea.Quit is returned.
handleCommand(mm, cb, tool, ran) ==
  LET cmdline == TrimSpace(mm.Input)
      m1 == [mm EXCEPT !.Input = Empty, !.HistIdx = -1]
      hist == IF mm.History = << >> \/ mm.History[Len(mm.History)] # cmdline
                THEN Append(mm.History, cmdline) ELSE mm.History
      rc(x, c, d, q) == [m |-> x, clip |-> c, dispatched |-> d, quit |-> q]
  IN IF cmdline = Empty THEN rc(mm, cb, << >>, FALSE)
     ELSE IF cmdline = <<"clear">>
       THEN rc([m1 EXCEPT !.Output = << >>, !.OutputLines = << >>], cb, << >>, FALSE)
     ELSE IF cmdline = <<"/quit">> THEN rc(m1, cb, << >>, TRUE)
     ELSE IF HasPrefix(cmdline, <<"/copy", " ">>)
       THEN LET c == handleCopyCommand(m1, cb, cmdline, tool, ran)
            IN rc(c.m, c.clip, << >>, FALSE)
     ELSE IF HasPrefix(cmdline, <<"cd", " ">>) \/ cmdline = <<"cd">>
       THEN rc(handleCdCommand(m1, cmdline), cb, << >>, FALSE)
     ELSE rc([m1 EXCEPT !.History = hist, !.Loading = TRUE], cb,
             <<runCommand(mm.Namespace, mm.PodName, mm.Container, cmdline,
                          mm.CurrentDir, mm.UseDebugContainer, mm.DebugContainer,
                          mm.TargetRoot, NoCause)>>,
             FALSE)

----------------------------------------------------------------------------
(* internal/tui: the selection wizard *)

Workloads == {T("deployment"), T("statefulset")}

\* What the closure of loadStep(s, m) returns: it reads the model when it
\* runs.  ok is whether the kubectl calls it makes return without error.
LoadMsg(s, mm, ok) ==
  LET good(vals) == [kind |-> "LoadMsg", Step |-> s, Err |-> NoErr, Values |-> vals]
      bad == [kind |-> "LoadMsg", Step |-> s, Err |-> <<"kubectl", " ", "get:", " ", "exit", " ", "status", " ", "1">>,
              Values |-> {}]
      nsOk == ok /\ mm.Namespace \in Namespaces
  IN CASE s = "StepPickNS" -> IF ok THEN good(Namespaces) ELSE bad
       [] s = "StepPickType" -> good(TypeList)
       [] s = "StepPickOwnerOrPod" ->
            IF nsOk /\ mm.Rtype = T("pod") THEN good(Pods)
            ELSE IF nsOk /\ mm.Rtype \in Workloads THEN good(Owners)
            ELSE bad
       [] s = "StepPickPodFromOwner" ->
            IF nsOk /\ mm.Rtype \in Workloads /\ mm.OwnerName \in Owners
              THEN good(Pods) ELSE bad
       [] s = "StepPickContainer" ->
            IF nsOk /\ mm.PodName \in Pods THEN good(PodContainers) ELSE bad
       [] OTHER -> good({})

\* case LoadMsg
UpdateLoad(mm, msg) ==
  LET m1 == [mm EXCEPT !.Loading = FALSE, !.LastErr = Empty]
  IN IF msg.Err # NoErr THEN [m1 EXCEPT !.LastErr = msg.Err]
     ELSE CASE msg.Step = "StepPickNS" -> SetList(m1, "Velg namespace", msg.Values)
            [] msg.Step = "StepPickType" -> SetList(m1, "Velg type", msg.Values)
            [] msg.Step = "StepPickOwnerOrPod" ->
                 IF mm.Rtype = T("pod") THEN SetList(m1, "Velg pod", msg.Values)
                 ELSE SetList(m1, "Velg workload", msg.Values)
            [] msg.Step = "StepPickPodFromOwner" -> SetList(m1, "Velg pod", msg.Values)
            [] msg.Step = "StepPickContainer" ->
                 SetList(m1, "Velg container", msg.Values)
            [] OTHER -> m1

\* The step Esc leads back to, "" where Esc does nothing.
BackStep(mm) ==
  CASE mm.Step = "StepPickType" -> "StepPickNS"
    [] mm.Step = "StepPickOwnerOrPod" -> "StepPickType"
    [] mm.Step = "StepPickPodFromOwner" -> "StepPickOwnerOrPod"
    [] mm.Step = "StepPickContainer" ->
         IF mm.Rtype = T("pod") THEN "StepPickOwnerOrPod" ELSE "StepPickPodFromOwner"
    [] OTHER -> ""

\* handleSelection, key enter with val the selected item: the model and the
\* step whose list it loads ("" when it loads none).
handleSelection(mm, val) ==
  LET go(x, s) == [m |-> [x EXCEPT !.Step = s, !.Loading = TRUE], load |-> s]
  IN CASE mm.Step = "StepPickNS" -> go([mm EXCEPT !.Namespace = val], "StepPickType")
       [] mm.Step = "StepPickType" ->
            go([mm EXCEPT !.Rtype = val], "StepPickOwnerOrPod")
       [] mm.Step = "StepPickOwnerOrPod" ->
            IF mm.Rtype = T("pod")
              THEN go([mm EXCEPT !.PodName = val], "StepPickContainer")
              ELSE go([mm EXCEPT !.OwnerName = val], "StepPickPodFromOwner")
       [] mm.Step = "StepPickPodFromOwner" ->
            go([mm EXCEPT !.PodName = val], "StepPickContainer")
       [] mm.Step = "StepPickContainer" ->
            [m |-> [mm EXCEPT !.Container = val, !.Step = "StepShell",
                              !.Loading = FALSE, !.Output = << >>],
             load |-> ""]
       [] OTHER -> [m |-> mm, load |-> ""]

----------------------------------------------------------------------------
(* main: what runs after the event loop has returned *)

\* What main reads of the final model.
Final(mm) ==
  [Namespace |-> mm.Namespace, PodName |-> mm.PodName,
   ChangedPodSecurityPolicy |-> mm.ChangedPodSecurityPolicy,
   OriginalPodSecurityPolicy |-> mm.OriginalPodSecurityPolicy,
   DebugContainer |-> mm.DebugContainer]

NoTeardown ==
  [ran |-> FALSE, final |-> Final(InitialModel), writes |-> << >>,
   notice |-> << >>, deleted |-> FALSE]

\* The policy writes main issues for the final model.
TeardownWrites(mm, restoreOk) ==
  IF mm.ChangedPodSecurityPolicy
    THEN <<SetCall(mm.Namespace, mm.OriginalPodSecurityPolicy, restoreOk)>>
    ELSE << >>

\* The notice main prints about the ephemeral container of the final model.
TeardownNotice(mm) ==
  IF mm.DebugContainer # Empty
    THEN <<[container |-> mm.DebugContainer, pod |-> mm.PodName]>>
    ELSE << >>

\* main after p.Run returned the final model mm without error.  restoreOk is
\* whether the restoring kubectl call succeeds, answer what the user answers
\* to the offer to delete the pod, deleteOk whether kubectl deleted the pod.
Teardown(mm, restoreOk, answer, deleteOk) ==
  [ran |-> TRUE, final |-> Final(mm),
   writes |-> TeardownWrites(mm, restoreOk),
   notice |-> TeardownNotice(mm),
   deleted |-> mm.DebugContainer # Empty /\ answer = "y" /\ deleteOk]

----------------------------------------------------------------------------
(* The environment of the main specification: what the user types and    *)
(* picks, and what the cluster answers.                                   *)

Lines == {<<"id">>, <<"/quit">>, <<"clear">>}

\* The user picks pods directly.
Picks == Namespaces \cup {T("pod")} \cup Pods \cup PodContainers

CmdOutcomes ==
  {[Stdout |-> <<"uid=0(root)">>, Stderr |-> Empty, Err |-> FALSE],
   [Stdout |-> Empty, Stderr |-> StderrNoShell, Err |-> TRUE],
   [Stdout |-> Empty, Stderr |-> StderrNoCmd, Err |-> TRUE],
   [Stdout |-> Empty, Stderr |-> StderrOther, Err |-> TRUE]}

\* The pod cannot be read; the replace is refused; the container is created
\* and is ready at the first poll (the nsenter probe works or not), or is
\* not ready within the budget (and the probe fails).
OverlapOutcomes ==
  {[Stdout |-> <<"uid=0(root)">>, Stderr |-> Empty, Err |-> FALSE],
   [Stdout |-> Empty, Stderr |-> StderrNoShell, Err |-> TRUE]}

CreateAnswers ==
  {Answer(FALSE, Empty, 1, 1, TRUE, Empty),
   Answer(TRUE, StderrPodSecurity, 1, 1, TRUE, Empty),
   Answer(TRUE, Empty, 1, 1, FALSE, <<"/", "\n">>),
   Answer(TRUE, Empty, 1, 1, TRUE, Empty),
   Answer(TRUE, Empty, PollBudget + 1, 1, TRUE, Empty)}

----------------------------------------------------------------------------
(* The state machine *)

\* All namespaces start with the same label value.
Init ==
  /\ m = InitialModel
  /\ sess = 0
  /\ inflight = SetToBag({loadStep("StepPickNS")})
  /\ label \in {[ns \in Namespaces |-> v] : v \in PolicyValues}
  /\ containers = << >>
  /\ phase = "running"
  /\ eff = NoEffect
  /\ td = NoTeardown
  /\ clip = NoClip
  /\ elev = [ns \in Namespaces |-> NoElev]
  /\ firstOrig = NoElev
  /\ ncmd = 0

\* Whether the handler whose outcome is r wrote "privileged" successfully.
Elevated(r) ==
  \E k \in 1..Len(r.calls) : r.calls[k].fn = "SetPodSecurityPolicy" /\ r.calls[k].ok

\* The bookkeeping of a handler that may have elevated the namespace.
NoteElevation(r) ==
  /\ elev' = IF Elevated(r) /\ elev[m.Namespace] = NoElev
               THEN [elev EXCEPT ![m.Namespace] = label[m.Namespace]] ELSE elev
  /\ firstOrig' = IF Elevated(r) /\ firstOrig = NoElev
                    THEN label[m.Namespace] ELSE firstOrig

\* A loadStep command finishes and its LoadMsg is handled.
LoadResult(t, ok) ==
  /\ phase = "running"
  /\ t.kind = "loadStep"
  /\ LET msg == LoadMsg(t.step, m, ok)
     IN /\ m' = UpdateLoad(m, msg)
        /\ eff' = Effect("LoadMsg", msg, << >>, << >>, << >>)
  /\ inflight' = Finish(inflight, t)
  /\ UNCHANGED <<label, containers, phase, td, clip, sess, elev, firstOrig, ncmd>>

\* A runCommand command finishes with outcome o and its CmdResultMsg is handled.
CmdResult(t, o, getOk, setOk) ==
  /\ phase = "running"
  /\ t.kind = "runCommand"
  /\ LET msg == [kind |-> "CmdResultMsg", Cmd |-> t.cmdline, Stdout |-> o.Stdout,
                 Stderr |-> o.Stderr, Err |-> o.Err, cause |-> t.cause]
     IN \E r \in {UpdateCmdResult(m, label, msg, getOk, setOk)} :
        /\ m' = r.m
        /\ label' = r.label
        /\ inflight' = Dispatch(Finish(inflight, t), r.dispatched)
        /\ eff' = Effect("CmdResultMsg", msg, r.calls, r.dispatched,
                          Appended(m.OutputLines, r.m.OutputLines))
        /\ NoteElevation(r)
  /\ UNCHANGED <<containers, phase, td, clip, sess, ncmd>>

\* The goroutine of a createDebugContainerCmd command runs CreateDebugContainer
\* against the cluster, which answers e; its message waits to be handled.
CreateRuns(t, e) ==
  /\ phase = "running"
  /\ t.kind = "createDebugContainerCmd"
  /\ t.result = NoMsg
  /\ LET res == CreateDebugContainer(Len(containers) + 1, e)
         msg == [kind |-> "DebugContainerMsg", DebugContainer |-> res.DebugContainer,
                 TargetRoot |-> res.TargetRoot, Err |-> res.Err,
                 ready |-> res.ready, polls |-> res.polls, probed |-> res.probed,
                 answers |-> e,
                 attempt |-> t.attempt, cause |-> t.cause]
     IN /\ IsRestrictive(res.Err) => t.attempt < MaxAttempts
        /\ inflight' = Dispatch(Finish(inflight, t), <<[t EXCEPT !.result = msg]>>)
        /\ containers' = IF res.created
              THEN Append(containers, [name |-> res.DebugContainer, ns |-> t.ns,
                                       pod |-> t.pod, sess |-> t.sess,
                                       ready |-> res.ready])
              ELSE containers
  /\ UNCHANGED <<m, label, phase, eff, td, clip, sess, elev, firstOrig, ncmd>>

\* The DebugContainerMsg of a finished createDebugContainerCmd is handled.
DebugContainerResult(t, getOk, setOk) ==
  /\ phase = "running"
  /\ t.kind = "createDebugContainerCmd"
  /\ t.result # NoMsg
  /\ \E r \in {UpdateDebugContainer(m, label, t.result, getOk, setOk)} :
        /\ m' = r.m
        /\ label' = r.label
        /\ inflight' = Dispatch(Finish(inflight, t), r.dispatched)
        /\ eff' = Effect("DebugContainerMsg", t.result, r.calls, r.dispatched,
                          Appended(m.OutputLines, r.m.OutputLines))
        /\ NoteElevation(r)
  /\ UNCHANGED <<containers, phase, td, clip, sess, ncmd>>

\* A key press; line is what the input holds when the key is enter.
Key(k) == [kind |-> "KeyMsg", key |-> k, line |-> Empty]

\* The event loop ends with tea.Quit while the model is mm: p.Run returns mm,
\* main tears down and the process exits.  Nothing of the program is left.
Quit(mm, restoreOk, answer, deleteOk) ==
  LET t == Teardown(mm, restoreOk, answer, deleteOk)
  IN /\ phase' = "done"
     /\ td' = t
     /\ label' = IF t.writes # << >> /\ restoreOk
                   THEN KubectlLabel(label, t.writes[1].args) ELSE label
     /\ containers' = IF t.deleted
           THEN SelectSeq(containers,
                          LAMBDA c : ~(c.ns = mm.Namespace /\ c.pod = mm.PodName))
           ELSE containers
     /\ m' = InitialModel
     /\ inflight' = EmptyBag

\* ctrl+c, in any step: tea.Quit.
KeyCtrlC(restoreOk, answer, deleteOk) ==
  /\ phase = "running"
  /\ Quit(m, restoreOk, answer, deleteOk)
  /\ eff' = Effect("KeyMsg", Key("ctrl+c"), << >>, << >>, << >>)
  /\ UNCHANGED <<clip, sess, elev, firstOrig, ncmd>>

\* esc in a selection step: handleBackNavigation.
KeyEsc ==
  /\ phase = "running"
  /\ m.Step # "StepShell"
  /\ BackStep(m) # ""
  /\ m' = [m EXCEPT !.Step = BackStep(m), !.Loading = TRUE]
  /\ inflight' = Dispatch(inflight, <<loadStep(BackStep(m))>>)
  /\ eff' = Effect("KeyMsg", Key("esc"), << >>, <<loadStep(BackStep(m))>>, << >>)
  /\ UNCHANGED <<label, containers, phase, td, clip, sess, elev, firstOrig, ncmd>>

\* enter in a selection step, with val the item under the cursor.
KeySelect(val) ==
  /\ phase = "running"
  /\ m.Step # "StepShell"
  /\ val \in m.LstItems
  /\ LET r == handleSelection(m, val)
         d == IF r.load = "" THEN << >> ELSE <<loadStep(r.load)>>
     IN /\ m' = r.m
        /\ inflight' = Dispatch(inflight, d)
        /\ eff' = Effect("KeyMsg", Key("enter"), << >>, d, << >>)
  /\ UNCHANGED <<label, containers, phase, td, clip, sess, elev, firstOrig, ncmd>>

\* A ctrl+r that starts the wizard again but keeps the debug container of
\* the session it leaves.
KeyCtrlRKeepsDebug ==
  /\ phase = "running"
  /\ m.Step = "StepShell"
  /\ sess < MaxRetargets
  /\ LET load == [loadStep("StepPickNS") EXCEPT !.sess = sess + 1]
     IN /\ m' = [InitialModel EXCEPT !.Loading = TRUE,
                                     !.UseDebugContainer = m.UseDebugContainer,
                                     !.DebugContainer = m.DebugContainer,
                                     !.TargetRoot = m.TargetRoot]
        /\ inflight' = Dispatch(inflight, <<load>>)
        /\ eff' = Effect("KeyMsg", Key("ctrl+r"), << >>, <<load>>, << >>)
  /\ sess' = sess + 1
  /\ firstOrig' = NoElev
  /\ UNCHANGED <<label, containers, phase, td, clip, elev, ncmd>>

\* ctrl+r in the shell step: retarget.
KeyCtrlR ==
  /\ phase = "running"
  /\ m.Step = "StepShell"
  /\ sess < MaxRetargets
  /\ LET load == [loadStep("StepPickNS") EXCEPT !.sess = sess + 1]
     IN /\ m' = [InitialModel EXCEPT !.Loading = TRUE]
        /\ inflight' = Dispatch(inflight, <<load>>)
        /\ eff' = Effect("KeyMsg", Key("ctrl+r"), << >>, <<load>>, << >>)
  /\ sess' = sess + 1
  /\ firstOrig' = NoElev
  /\ UNCHANGED <<label, containers, phase, td, clip, elev, ncmd>>

\* enter in the shell step when the input reads l: handleCommand.
KeyEnter(l, tool, ran, restoreOk, answer, deleteOk) ==
  /\ phase = "running"
  /\ m.Step = "StepShell"
  /\ \E r \in {handleCommand([m EXCEPT !.Input = l], clip, tool, ran)} :
        /\ ncmd + Len(r.dispatched) <= MaxCmds
        /\ ncmd' = ncmd + Len(r.dispatched)
        /\ clip' = r.clip
        /\ eff' = Effect("KeyMsg", [Key("enter") EXCEPT !.line = l], << >>,
                          r.dispatched, Appended(m.OutputLines, r.m.OutputLines))
        /\ IF r.quit
             THEN Quit(r.m, restoreOk, answer, deleteOk)
             ELSE /\ m' = r.m
                  /\ inflight' = Dispatch(inflight, r.dispatched)
                  /\ UNCHANGED <<label, containers, phase, td>>
  /\ UNCHANGED <<sess, elev, firstOrig>>

\* up or down in the shell step: handleHistoryUp, handleHistoryDown.
KeyHistory(k) ==
  /\ phase = "running"
  /\ m.Step = "StepShell"
  /\ m' = IF k = "up" THEN handleHistoryUp(m) ELSE handleHistoryDown(m)
  /\ eff' = Effect("KeyMsg", Key(k), << >>, << >>, << >>)
  /\ UNCHANGED <<inflight, label, containers, phase, td, clip, sess, elev, firstOrig, ncmd>>

\* tab in the shell step when the input reads l: handleAutocomplete, whose
\* remote calls return lookup and isDirOut.
KeyTab(l, lookup, isDirOut) ==
  /\ phase = "running"
  /\ m.Step = "StepShell"
  /\ \E r \in {handleAutocomplete([m EXCEPT !.Input = l], lookup, isDirOut)} :
        /\ m' = r.m
        /\ eff' = Effect("KeyMsg", [Key("tab") EXCEPT !.line = l], r.calls, << >>, << >>)
  /\ UNCHANGED <<inflight, label, containers, phase, td, clip, sess, elev, firstOrig, ncmd>>

\* p.Run returns an error: main prints it and exits with status 1.
RunFails ==
  /\ phase = "running"
  /\ phase' = "failed"
  /\ td' = [NoTeardown EXCEPT !.final = Final(m)]
  /\ m' = InitialModel
  /\ inflight' = EmptyBag
  /\ eff' = NoEffect
  /\ UNCHANGED <<label, containers, clip, sess, elev, firstOrig, ncmd>>

\* How the two policy calls of a handler can end.
PolicyAnswers ==
  {[getOk |-> TRUE, setOk |-> TRUE], [getOk |-> FALSE, setOk |-> TRUE],
   [getOk |-> TRUE, setOk |-> FALSE]}

\* The user of the main specification stays in one session and acts on what
\* the screen shows: picks from a list or submits a line only while nothing
\* is loading, has a clipboard program and declines to delete the pod.
Next ==
  \/ \E t \in BagToSet(inflight) : LoadResult(t, TRUE)
  \/ \E t \in BagToSet(inflight), o \in CmdOutcomes, p \in PolicyAnswers :
        CmdResult(t, o, p.getOk, p.setOk)
  \/ \E t \in BagToSet(inflight), e \in CreateAnswers : CreateRuns(t, e)
  \/ \E t \in BagToSet(inflight), p \in PolicyAnswers :
        DebugContainerResult(t, p.getOk, p.setOk)
  \/ \E restoreOk \in BOOLEAN : KeyCtrlC(restoreOk, "n", FALSE)
  \/ ~m.Loading /\ KeyEsc
  \/ \E val \in Picks : ~m.Loading /\ KeySelect(val)
  \/ \E l \in Lines, restoreOk \in BOOLEAN :
        ~m.Loading /\ KeyEnter(l, TRUE, TRUE, restoreOk, "n", FALSE)
  \/ RunFails

Spec == Init /\ [][Next]_vars

\* The same user, who also retargets (ctrl+r) while nothing is loading.
NextRetarget ==
  \/ Next
  \/ ~m.Loading /\ KeyCtrlR

SpecRetarget == Init /\ [][NextRetarget]_vars

\* The user of this specification picks a pod of the first namespace and then
\* submits lines without waiting for results; the shell of the container
\* either works or is missing.
NextOverlap ==
  \/ \E t \in BagToSet(inflight) : LoadResult(t, TRUE)
  \/ \E t \in BagToSet(inflight), o \in OverlapOutcomes, p \in PolicyAnswers :
        CmdResult(t, o, p.getOk, p.setOk)
  \/ \E t \in BagToSet(inflight), e \in CreateAnswers : CreateRuns(t, e)
  \/ \E t \in BagToSet(inflight), p \in PolicyAnswers :
        DebugContainerResult(t, p.getOk, p.setOk)
  \/ \E restoreOk \in BOOLEAN : KeyCtrlC(restoreOk, "n", FALSE)
  \/ \E val \in Picks \ {T("ns2")} : ~m.Loading /\ KeySelect(val)
  \/ \E restoreOk \in BOOLEAN : KeyEnter(<<"id">>, TRUE, TRUE, restoreOk, "n", FALSE)

SpecOverlap == Init /\ [][NextOverlap]_vars

\* What the user of the shell specification types: a command, clear and the
\* forms of cd, one of them with blanks around it.
ShellLines ==
  {<<"ls">>, <<"clear">>,
   <<"cd">>, <<"cd", " ", "~">>, <<"cd", " ", "/", "etc">>,
   <<" ", "cd", " ", "conf", " ">>}

\* The command prints two lines.
ShellOutcomes ==
  {[Stdout |-> <<"conf", "\n", "etc", "\n">>, Stderr |-> Empty, Err |-> FALSE]}

\* The cluster of the shell specifications: no namespace has the label.
InitShell == Init /\ label = [ns \in Namespaces |-> Empty]

\* The model is within the bounds of the shell specification.
Bounded(mm) ==
  /\ Len(mm.History) <= MaxHist
  /\ Len(mm.OutputLines) <= MaxLog
  /\ Len(mm.CurrentDir) <= MaxDir

\* The user of the shell specification picks the container of the pod of the
\* first namespace and works in its shell, which exists: submits lines
\* (typed, or recalled from the history) and walks the history while
\* nothing is loading.
NextShell ==
  \/ \E t \in BagToSet(inflight) : LoadResult(t, TRUE)
  \/ \E t \in BagToSet(inflight), o \in ShellOutcomes :
        CmdResult(t, o, TRUE, TRUE) /\ Bounded(m')
  \/ \E val \in Picks \ {T("ns2")} : ~m.Loading /\ KeySelect(val)
  \/ \E l \in ShellLines \cup {m.Input} :
        ~m.Loading /\ KeyEnter(l, TRUE, TRUE, TRUE, "n", FALSE) /\ Bounded(m')
  \/ \E k \in {"up", "down"} : ~m.Loading /\ KeyHistory(k)

SpecShell == InitShell /\ [][NextShell]_vars

\* What the user of the copy specification types: a command and the
\* forms of /copy, with ranges inside the output and outside it.
CopyLines ==
  {<<"ls">>,
   <<"/copy", " ", "2">>, <<"/copy", " ", "1", ",", "2">>,
   <<"/copy", " ", "2", "-", "4">>, <<"/copy", " ", "3", ",", "2">>,
   <<"/copy", " ", "0">>, <<"/copy", " ", "9">>}

\* A clipboard program is found and runs, is found and fails, or is missing.
ClipboardAnswers ==
  {[tool |-> TRUE, ran |-> TRUE], [tool |-> TRUE, ran |-> FALSE],
   [tool |-> FALSE, ran |-> FALSE]}

\* The user of the copy specification works in the same shell, submits
\* commands and /copy lines while nothing is loading.
NextCopy ==
  \/ \E t \in BagToSet(inflight) : LoadResult(t, TRUE)
  \/ \E t \in BagToSet(inflight), o \in ShellOutcomes :
        CmdResult(t, o, TRUE, TRUE) /\ Len(m'.OutputLines) <= MaxCopyLog
  \/ \E val \in Picks \ {T("ns2")} : ~m.Loading /\ KeySelect(val)
  \/ \E l \in CopyLines, c \in ClipboardAnswers :
        /\ ~m.Loading
        /\ KeyEnter(l, c.tool, c.ran, TRUE, "n", FALSE)
        /\ Len(m'.OutputLines) <= MaxCopyLog

SpecCopy == InitShell /\ [][NextCopy]_vars

\* The user of this specification works in the same shell and retargets
\* (ctrl+r) at any time, also while a command is running.
NextStale ==
  \/ \E t \in BagToSet(inflight) : LoadResult(t, TRUE)
  \/ \E t \in BagToSet(inflight), o \in ShellOutcomes : CmdResult(t, o, TRUE, TRUE)
  \/ \E val \in Picks \ {T("ns2")} : ~m.Loading /\ KeySelect(val)
  \/ ~m.Loading /\ KeyEnter(<<"ls">>, TRUE, TRUE, TRUE, "n", FALSE)
  \/ KeyCtrlR

SpecStale == InitShell /\ [][NextStale]_vars

\* What the user of the completion specification has typed when pressing
\* tab: a path with a directory, a name, prefixes of words the command
\* prints (one after two blanks), a word the command prints, one letter,
\* a prefix of nothing, a blank.
TabInputs ==
  {<<"cat", " ", "/", "app", "/", "re">>, <<"cat", " ", "re">>,
   <<"cat", " ", " ", "co">>, <<"cat", " ", "conf">>, <<"c">>,
   <<"cat", " ", "zz">>, <<" ">>}

\* The command prints three names.
TabOutcomes ==
  {[Stdout |-> <<"conf", "\n", "code", "\n", "conf.d", "\n">>, Stderr |-> Empty,
    Err |-> FALSE]}

\* The first-match listing fails, prints nothing, or prints a match with the
\* directory it was asked for.
Lookups ==
  {[out |-> Empty, err |-> TRUE], [out |-> Empty, err |-> FALSE],
   [out |-> <<"/", "app", "/", "responses", "\n">>, err |-> FALSE],
   [out |-> <<".", "/", "responses", "\n">>, err |-> FALSE]}

DirAnswers == {<<"DIR", "\n">>, <<"FILE", "\n">>}

\* The user of the completion specification works in the same shell: runs
\* the command and presses tab on what has been typed, while nothing is
\* loading.
NextTab ==
  \/ \E t \in BagToSet(inflight) : LoadResult(t, TRUE)
  \/ \E t \in BagToSet(inflight), o \in TabOutcomes : CmdResult(t, o, TRUE, TRUE)
  \/ \E val \in Picks \ {T("ns2")} : ~m.Loading /\ KeySelect(val)
  \/ ~m.Loading /\ KeyEnter(<<"ls">>, TRUE, TRUE, TRUE, "n", FALSE)
  \/ \E l \in TabInputs, lookup \in Lookups, isDirOut \in DirAnswers :
        ~m.Loading /\ KeyTab(l, lookup, isDirOut)

SpecTab == InitShell /\ [][NextTab]_vars

\* What the user of the reserved-forms specification types: a command, a
\* blank line and every form the shell handles itself.
ReservedLines ==
  {<<"ls">>, <<" ">>, <<"clear">>, <<"/quit">>, <<"/copy", " ", "1">>,
   <<"cd">>, <<"cd", " ", "/", "etc">>}

\* The user of the reserved-forms specification works in the same shell and
\* submits these lines while nothing is loading.
NextReserved ==
  \/ \E t \in BagToSet(inflight) : LoadResult(t, TRUE)
  \/ \E t \in BagToSet(inflight), o \in ShellOutcomes :
        CmdResult(t, o, TRUE, TRUE) /\ Bounded(m')
  \/ \E val \in Picks \ {T("ns2")} : ~m.Loading /\ KeySelect(val)
  \/ \E l \in ReservedLines :
        ~m.Loading /\ KeyEnter(l, TRUE, TRUE, TRUE, "n", FALSE) /\ Bounded(m')

SpecReserved == InitShell /\ [][NextReserved]_vars

\* The answers of the provisioning specification to the readiness poll: the
\* container runs and echoes at once, runs from the second attempt, runs at
\* once and echoes from the third attempt or from the last, never runs, or
\* runs and never echoes.
PollAnswers ==
  {<<1, 1>>, <<2, 1>>, <<1, 3>>, <<1, PollBudget>>, <<PollBudget + 1, 1>>,
   <<1, PollBudget + 1>>}

\* Its answers to the nsenter probe: a directory, nothing, a blank line, a
\* message with an error, nothing with an error.
ProbeAnswers ==
  {[err |-> FALSE, out |-> <<"/", "\n">>], [err |-> FALSE, out |-> Empty],
   [err |-> FALSE, out |-> <<" ", "\n">>],
   [err |-> TRUE, out |-> <<"nsenter:", " ", "failed", "\n">>],
   [err |-> TRUE, out |-> Empty]}

\* The pod cannot be read, the replace is refused for a reason that is not
\* the PodSecurity policy, or the container is created and the cluster
\* answers the poll and the probe.
ProvisionAnswers ==
  {Answer(FALSE, Empty, 1, 1, TRUE, Empty),
   Answer(TRUE, StderrForbidden, 1, 1, TRUE, Empty)}
    \cup {Answer(TRUE, Empty, a[1], a[2], b.err, b.out) : a \in PollAnswers, b \in ProbeAnswers}

\* The user of the provisioning specification submits a command in a
\* container that may have no shell; the namespace policy can be read and
\* written, and the cluster answers the provisioning in every way above.
NextProvision ==
  \/ \E t \in BagToSet(inflight) : LoadResult(t, TRUE)
  \/ \E t \in BagToSet(inflight), o \in CmdOutcomes : CmdResult(t, o, TRUE, TRUE)
  \/ \E t \in BagToSet(inflight), e \in ProvisionAnswers : CreateRuns(t, e)
  \/ \E t \in BagToSet(inflight) : DebugContainerResult(t, TRUE, TRUE)
  \/ \E val \in Picks \ {T("ns2")} : ~m.Loading /\ KeySelect(val)
  \/ ~m.Loading /\ KeyEnter(<<"id">>, TRUE, TRUE, TRUE, "n", FALSE)

SpecProvision == InitShell /\ [][NextProvision]_vars

\* The goroutine of a dispatched provisioning is scheduled.
FairProvision == WF_vars(\E t \in BagToSet(inflight), e \in ProvisionAnswers : CreateRuns(t, e))

SpecProvisionFair == SpecProvision /\ FairProvision

\* The user of this specification also retargets (ctrl+r) while nothing is
\* loading, from a session in debug mode or not.
NextProvisionRetarget ==
  \/ NextProvision
  \/ ~m.Loading /\ KeyCtrlR

SpecProvisionRetarget == InitShell /\ [][NextProvisionRetarget]_vars

\* What the user of the working-directory specification types.
CwdLines == {<<"ls">>, <<"cd">>, <<"cd", " ", "/", "etc">>}

\* The user of the working-directory specification works in the same shell
\* and does not wait: lines are submitted while a command is running.
NextCwd ==
  \/ \E t \in BagToSet(inflight) : LoadResult(t, TRUE)
  \/ \E t \in BagToSet(inflight), o \in ShellOutcomes :
        CmdResult(t, o, TRUE, TRUE) /\ Len(m'.OutputLines) <= MaxCopyLog
  \/ \E val \in Picks \ {T("ns2")} : ~m.Loading /\ KeySelect(val)
  \/ \E l \in CwdLines :
        KeyEnter(l, TRUE, TRUE, TRUE, "n", FALSE) /\ Len(m'.OutputLines) <= MaxCopyLog

SpecCwd == InitShell /\ [][NextCwd]_vars

\* What the user of the debug-shell specification types: commands, one of
\* them with single quotes, and cd lines.
DebugLines ==
  {<<"ls">>, <<"echo", " ", "'", "a", "'">>,
   <<"cd">>, <<"cd", " ", "/", "etc">>, <<"cd", " ", "conf">>}

\* The provisioning of the debug-shell specification succeeds, in the one
\* execution mode or in the other.
DebugAnswers ==
  {Answer(TRUE, Empty, 1, 1, FALSE, <<"/", "\n">>), Answer(TRUE, Empty, 1, 1, TRUE, Empty)}

\* The cluster of the debug-shell specification: the namespaces are
\* labelled "privileged" already.
InitDebug == Init /\ label = [ns \in Namespaces |-> Privileged]

\* The model is within the bounds of the debug-shell specification.
BoundedDebug(mm) ==
  /\ Len(mm.History) <= MaxDebugHist
  /\ Len(mm.OutputLines) <= MaxDebugLog
  /\ Len(mm.CurrentDir) <= MaxDir

\* The user of the debug-shell specification works in a container that may
\* have no shell, so that the session may go on in a debug container, and
\* submits lines while nothing is loading.
NextDebugShell ==
  \/ \E t \in BagToSet(inflight) : LoadResult(t, TRUE)
  \/ \E t \in BagToSet(inflight), o \in CmdOutcomes :
        CmdResult(t, o, TRUE, TRUE) /\ BoundedDebug(m')
  \/ \E t \in BagToSet(inflight), e \in DebugAnswers : CreateRuns(t, e)
  \/ \E t \in BagToSet(inflight) : DebugContainerResult(t, TRUE, TRUE) /\ BoundedDebug(m')
  \/ \E val \in Picks \ {T("ns2")} : ~m.Loading /\ KeySelect(val)
  \/ \E l \in DebugLines :
        ~m.Loading /\ KeyEnter(l, TRUE, TRUE, TRUE, "n", FALSE) /\ BoundedDebug(m')

SpecDebugShell == InitDebug /\ [][NextDebugShell]_vars

----------------------------------------------------------------------------
(* Properties *)

\* How many of the commands d are provisioning attempts.
Creates(d) ==
  Cardinality({k \in 1..Len(d) : d[k].kind = "createDebugContainerCmd"})

\* C1: when the program has exited through /quit or ctrl+c, every namespace
\* it set to "privileged" has had a restoring write issued by the teardown,
\* with the value the label had before the program first elevated it.
C1_RestoredOnExit ==
  phase = "done" =>
    \A ns \in Namespaces :
      elev[ns] # NoElev =>
        \E k \in 1..Len(td.writes) :
          td.writes[k].args = SetPodSecurityPolicyArgs(ns, elev[ns])

\* C2: the teardown of a final model whose ChangedPodSecurityPolicy is set
\* issues exactly one policy write, for the namespace and with the original
\* value the final model records: the removal of the label when that value is
\* "", the overwrite otherwise, after which (when kubectl succeeds) the label
\* has that value.  A final model without the flag, and so every run that
\* never elevated, gets no write.
C2_TeardownWritesOnce ==
  phase = "done" =>
    LET f == td.final
        key == "pod-security.kubernetes.io/enforce"
    IN /\ f.ChangedPodSecurityPolicy =>
            /\ Len(td.writes) = 1
            /\ td.writes[1].fn = "SetPodSecurityPolicy"
            /\ td.writes[1].args =
                 IF f.OriginalPodSecurityPolicy = Empty
                   THEN <<<<"label">>, <<"namespace">>, f.Namespace, <<key \o "-">>>>
                   ELSE <<<<"label">>, <<"namespace">>, f.Namespace,
                          <<key \o "=">> \o f.OriginalPodSecurityPolicy,
                          <<"--overwrite">>>>
            /\ td.writes[1].ok => label[f.Namespace] = f.OriginalPodSecurityPolicy
       /\ ~f.ChangedPodSecurityPolicy => td.writes = << >>
       /\ (\A ns \in Namespaces : elev[ns] = NoElev) => td.writes = << >>

\* The teardown has removed the label of a namespace that had none before
\* the elevation.
C2_Witness ==
  /\ phase = "done"
  /\ td.final.ChangedPodSecurityPolicy
  /\ td.final.OriginalPodSecurityPolicy = Empty
  /\ Len(td.writes) = 1
  /\ td.writes[1].ok
  /\ label[td.final.Namespace] = Empty

\* C3: while the policy of the session counts as changed, the recorded
\* original is the value read before the first elevation of the session:
\* no later event changes OriginalPodSecurityPolicy.
C3_OriginalKept ==
  m.ChangedPodSecurityPolicy => m.OriginalPodSecurityPolicy = firstOrig

\* C4: when the event loop has ended with an error while the policy counted
\* as changed, the restoring write has been issued all the same.
C4_RestoredOnFailure ==
  (phase = "failed" /\ td.final.ChangedPodSecurityPolicy) => Len(td.writes) = 1

\* C5: at most one dispatched command is calling the cluster at any time.
C5_OneRemoteCall == Running(inflight) <= 1

\* The handler has just handled the failed result of a command run in the
\* target container whose stderr holds "executable file not found".
C6_Case ==
  /\ eff.kind = "CmdResultMsg"
  /\ eff.msg.Err
  /\ Contains(eff.msg.Stderr, MarkerExecNotFound)
  /\ ~m.UseDebugContainer

\* The result is classified "no shell" once and is not displayed as a result.
C6_Classified ==
  /\ Cardinality({k \in 1..Len(eff.appended) : eff.appended[k] = LineNoShell}) = 1
  /\ \A k \in 1..Len(eff.appended) :
        eff.appended[k] \notin {LineHeader(eff.msg), eff.msg.Stdout, eff.msg.Stderr}

\* C6 as stated: such a result is classified "no shell" exactly once, is not
\* displayed as a normal result, and exactly one provisioning attempt is
\* dispatched.
C6_AlwaysOneAttempt ==
  C6_Case => C6_Classified /\ Creates(eff.dispatched) = 1

\* C6, amended: such a result is classified "no shell" exactly once and is
\* not displayed as a normal result; the handler reads the policy, and
\* dispatches exactly one provisioning attempt when the read and the
\* elevating write it may need succeed, none when one of them fails.
C6_OneAttemptUnlessPolicyFails ==
  C6_Case =>
    /\ C6_Classified
    /\ Len(eff.calls) >= 1
    /\ eff.calls[1].fn = "GetPodSecurityPolicy"
    /\ Len(eff.dispatched) = Creates(eff.dispatched)
    /\ Creates(eff.dispatched) =
         IF \A k \in 1..Len(eff.calls) : eff.calls[k].ok THEN 1 ELSE 0

\* A "no shell" result has led to an elevation and one provisioning attempt.
C6_Witness ==
  /\ C6_Case
  /\ Len(eff.calls) = 2
  /\ eff.calls[2].ok
  /\ Creates(eff.dispatched) = 1
  /\ m.ChangedPodSecurityPolicy

\* C7: no session has created more than one debug container.
C7_OneContainerPerSession ==
  \A i, j \in 1..Len(containers) :
    containers[i].sess = containers[j].sess => i = j

\* C8: only the first provisioning attempt of a fallback is answered with
\* an elevation and a retry: the failure of a retry dispatches nothing.
C8_RetryOnce ==
  (eff.kind = "DebugContainerMsg" /\ Creates(eff.dispatched) > 0) =>
     eff.msg.attempt = 1

\* C9: a provisioning whose container was not ready within the poll budget
\* reports an error and has not run the probe, and the debug container the
\* session has adopted was ready.
C9_UnreadyIsError ==
  /\ \A t \in BagToSet(inflight) :
        (/\ t.kind = "createDebugContainerCmd"
         /\ t.result # NoMsg
         /\ t.result.polls = PollBudget
         /\ ~t.result.ready) =>
           (t.result.Err # NoErr /\ ~t.result.probed)
  /\ m.UseDebugContainer =>
        \A k \in 1..Len(containers) :
           containers[k].name = m.DebugContainer => containers[k].ready

\* C10: the handler that adopts the debug container dispatches, through the
\* debug container, the command line whose "no shell" result started the
\* fallback.
C10_TriggerRetried ==
  (eff.kind = "DebugContainerMsg" /\ eff.msg.Err = NoErr) =>
     \E k \in 1..Len(eff.dispatched) :
        /\ eff.dispatched[k].kind = "runCommand"
        /\ eff.dispatched[k].useDebug
        /\ eff.dispatched[k].cmdline = eff.msg.cause

\* The command t is the verification listing dispatched at adoption.
IsVerification(t) ==
  /\ t.kind = "runCommand"
  /\ t.cause # NoCause
  /\ t.useDebug
  /\ t.cmdline = TestCmd(t.targetRoot)

\* C11: the session is in debug mode only once the verification listing has
\* come back without error: when the result of the listing is an error the
\* session is not left in debug mode, and no line of the user runs through
\* the debug container while the listing is still outstanding.
C11_TrustedAfterVerification ==
  /\ (/\ eff.kind = "CmdResultMsg"
      /\ eff.msg.cause # NoCause
      /\ eff.msg.Cmd = TestCmd(m.TargetRoot)
      /\ eff.msg.Err) => ~m.UseDebugContainer
  /\ \A t, v \in BagToSet(inflight) :
        (t.kind = "runCommand" /\ t.cause = NoCause /\ t.useDebug) => ~IsVerification(v)

\* C12: when the run has ended through teardown, every ephemeral container
\* created during the run, in this session or before a retarget, is named
\* with its pod by a notice of the teardown.
C12_NoticeNamesCreated ==
  phase = "done" =>
    \A k \in 1..Len(containers) :
      \E i \in 1..Len(td.notice) :
        /\ td.notice[i].container = containers[k].name
        /\ td.notice[i].pod = containers[k].pod

\* C13: in a session that is not in debug mode, a failed result whose stderr
\* holds neither "executable file not found" nor "OCI runtime exec failed"
\* is shown as a result, with the ERR tag and its stderr, and its handler
\* reads and writes no policy and dispatches nothing.
C13_OnlyFixedMarkers ==
  (/\ eff.kind = "CmdResultMsg"
   /\ eff.msg.Err
   /\ ~m.UseDebugContainer
   /\ ~Contains(eff.msg.Stderr, MarkerExecNotFound)
   /\ ~Contains(eff.msg.Stderr, MarkerOCI)) =>
     /\ eff.calls = << >>
     /\ eff.dispatched = << >>
     /\ \E k \in 1..Len(eff.appended) : eff.appended[k] = LineHeader(eff.msg)
     /\ \E k \in 1..Len(eff.appended) : eff.appended[k] = eff.msg.Stderr

\* The handler of enter has just handled a line, as the effect e records it.
Submitted(e) == e.kind = "KeyMsg" /\ e.msg.key = "enter"

\* The trimmed line is a cd line; its argument.
IsCdLine(line) ==
  TrimSpace(line) = <<"cd">> \/ HasPrefix(TrimSpace(line), <<"cd", " ">>)

CdArg(line) == TrimSpace(TrimPrefix(TrimSpace(line), <<"cd">>))

\* The join of the working directory cur with the argument arg of a cd line.
CdJoin(cur, arg) ==
  IF arg = Empty \/ arg = <<"~">> THEN Empty
  ELSE IF arg[1] = "/" THEN arg
  ELSE IF cur = Empty THEN arg
  ELSE cur \o <<"/">> \o arg

\* C14: the working directory is the sequential join of the arguments of the
\* cd lines submitted so far: it starts as "" (home), the handler of a cd
\* line makes it the join of its value with the argument of the line (""
\* or "~" resets it to "", an argument that starts with "/" replaces it,
\* any other is appended after one "/", or becomes the value when it was
\* ""), and no other step of the shell changes it.
C14_SequentialJoin ==
  [][/\ m.Step # "StepShell" => m.CurrentDir = Empty
     /\ IF Submitted(eff') /\ IsCdLine(eff'.msg.line)
          THEN m'.CurrentDir = CdJoin(m.CurrentDir, CdArg(eff'.msg.line))
          ELSE m'.CurrentDir = m.CurrentDir]_vars

\* A relative argument has been appended to an absolute directory.
C14_Witness ==
  /\ Submitted(eff)
  /\ IsCdLine(eff.msg.line)
  /\ CdArg(eff.msg.line) = <<"conf">>
  /\ m.CurrentDir = <<"/", "etc", "/", "conf">>

\* C15: in the state the handler of a cd line returns, the dictionary of
\* the completion holds no word.
C15_EmptyAfterCd ==
  (Submitted(eff) /\ IsCdLine(eff.msg.line)) => m.AutocompleteWords = {}

\* C16: in the shell step the numbered lines on display are the entries of
\* OutputLines, each shown with its position: the first with 1, the last
\* with the number of entries.
C16_OrdinalsAreIndexes ==
  m.Step = "StepShell" =>
    m.Output = [k \in 1..Len(m.OutputLines) |-> [num |-> k, line |-> m.OutputLines[k]]]

\* The trimmed line is a /copy line; the atoms of its range.
IsCopyLine(line) == HasPrefix(TrimSpace(line), <<"/copy", " ">>)

CopyArg(line) == TrimSpace(TrimPrefix(TrimSpace(line), <<"/copy">>))

\* The atom is a number.
IsNumber(a) == ScanInt(a) >= 0

\* The range a /copy line names: "n", "a,b" or "a-b"; [0, 0] for any other.
CopyRange(line) ==
  LET r == CopyArg(line)
  IN IF Len(r) = 1 /\ IsNumber(r[1])
       THEN [a |-> ScanInt(r[1]), b |-> ScanInt(r[1])]
     ELSE IF Len(r) = 3 /\ IsNumber(r[1]) /\ r[2] \in {",", "-"} /\ IsNumber(r[3])
       THEN [a |-> ScanInt(r[1]), b |-> ScanInt(r[3])]
     ELSE [a |-> 0, b |-> 0]

\* The range is within a log of n lines.
InRange(rg, n) == 1 <= rg.a /\ rg.a <= rg.b /\ rg.b <= n

\* C17: when a /copy line names a range a..b within the N lines of the
\* output ("n", "a,b" or "a-b"), the text handed to the clipboard program
\* is made of the lines a..b of the output, in order, with a newline between
\* two lines; when no clipboard program is found nothing is handed over.
C17_CopiesRange ==
  [][(/\ Submitted(eff')
      /\ IsCopyLine(eff'.msg.line)
      /\ InRange(CopyRange(eff'.msg.line), Len(m.OutputLines))) =>
        LET rg == CopyRange(eff'.msg.line)
        IN \/ Split(clip') = SubSeq(m.OutputLines, rg.a, rg.b)
           \/ eff'.appended = <<LineNoClipboard>> /\ clip' = clip]_vars

\* Lines 2 to 4 of the output of a command, the last of them empty, have
\* been handed to the clipboard program.
C17_Witness ==
  /\ Submitted(eff)
  /\ eff.msg.line = <<"/copy", " ", "2", "-", "4">>
  /\ clip = <<"conf", "\n", "etc", "\n">>
  /\ SubSeq(m.OutputLines, 2, 4) = <<<<"conf">>, <<"etc">>, Empty>>

\* The handler of enter has just handled a /copy line whose range is not
\* within the lines the output had (before the step, in an action formula).
C18_Case ==
  /\ Submitted(eff')
  /\ IsCopyLine(eff'.msg.line)
  /\ ~InRange(CopyRange(eff'.msg.line), Len(m.OutputLines))

\* C18 as stated: a /copy line whose range is out of range hands nothing to
\* the clipboard program and leaves the output log, the dictionary, the
\* history and the working directory as they were.
C18_RejectedWithoutMutation ==
  [][C18_Case =>
       /\ clip' = clip
       /\ m'.OutputLines = m.OutputLines
       /\ m'.AutocompleteWords = m.AutocompleteWords
       /\ m'.History = m.History
       /\ m'.CurrentDir = m.CurrentDir]_vars

\* C18, amended: a /copy line whose range is out of range hands nothing to
\* the clipboard program and leaves the history and the working directory
\* as they were; the output log gains one line, the error that reports the
\* valid bound 1-N, and the dictionary gains the words of that line.
C18_RejectedWithError ==
  [][C18_Case =>
       /\ clip' = clip
       /\ m'.History = m.History
       /\ m'.CurrentDir = m.CurrentDir
       /\ m'.OutputLines = Append(m.OutputLines, LineInvalidRange(Len(m.OutputLines)))
       /\ m'.AutocompleteWords = m.AutocompleteWords \cup
            {"Invalid", "range.", "Available", "lines:",
             "1-" \o ToString(Len(m.OutputLines))}]_vars

\* A range beyond the five lines of the output has been rejected after a
\* range within them was handed to the clipboard program.
C18_Witness ==
  /\ Submitted(eff)
  /\ eff.msg.line = <<"/copy", " ", "9">>
  /\ eff.appended = <<LineInvalidRange(5)>>
  /\ clip # NoClip

\* The history key k has just been handled, as the effect e records it.
Pressed(e, k) == e.kind = "KeyMsg" /\ e.msg.key = k

\* C19: with a non-empty history, up from idle (cursor -1) goes to the
\* newest entry, each further up goes one entry older and at the oldest
\* entry stays there, and the input shows the entry under the cursor; down
\* from idle changes nothing; down from the newest entry clears the input
\* and returns the cursor to -1; with an empty history both keys change
\* nothing.
C19_HistoryNavigation ==
  [][/\ Pressed(eff', "up") =>
          IF m.History = << >> THEN m' = m
          ELSE /\ m'.HistIdx = IF m.HistIdx = -1 THEN Len(m.History) - 1
                                ELSE IF m.HistIdx = 0 THEN 0
                                ELSE m.HistIdx - 1
               /\ m'.Input = m.History[m'.HistIdx + 1]
               /\ m'.History = m.History
     /\ Pressed(eff', "down") =>
          /\ (m.History = << >> \/ m.HistIdx = -1) => m' = m
          /\ (m.History # << >> /\ m.HistIdx = Len(m.History) - 1) =>
                /\ m'.Input = Empty
                /\ m'.HistIdx = -1
                /\ m'.History = m.History]_vars

\* Up has reached the oldest of three entries.
C19_Witness ==
  /\ Pressed(eff, "up")
  /\ Len(m.History) = 3
  /\ m.HistIdx = 0
  /\ m.Input = m.History[1]

\* No two adjacent entries of the history h are equal.
NoAdjacentRepeat(h) == \A k \in 1..(Len(h) - 1) : h[k] # h[k + 1]

\* C20: no two adjacent entries of the history are equal; the handler of a
\* submitted line leaves the history as it is or appends the trimmed text
\* of the line after the entries it has: it leaves it when the last entry
\* is that text, and appends the text when an earlier entry, not the last,
\* is that text; no other step of the shell changes the history.
C20_DedupeLastOnly ==
  [][/\ NoAdjacentRepeat(m.History)
     /\ IF Submitted(eff')
          THEN LET cmdline == TrimSpace(eff'.msg.line)
                   h == m.History
               IN /\ m'.History \in {h, Append(h, cmdline)}
                  /\ (h # << >> /\ h[Len(h)] = cmdline) => m'.History = h
                  /\ (/\ \E k \in 1..Len(h) : h[k] = cmdline
                      /\ h[Len(h)] # cmdline) => m'.History = Append(h, cmdline)
          ELSE m'.History = m.History]_vars

\* A command has been recorded a second time after a cd line typed with
\* blanks around it.
C20_Witness ==
  /\ Submitted(eff)
  /\ eff.msg.line = <<"ls">>
  /\ m.History = <<<<"ls">>, <<"cd", " ", "conf">>, <<"ls">>>>

\* The name part of a word (what follows its last "/") and its directory
\* part (the rest).
RECURSIVE BaseOf(_)
BaseOf(w) ==
  IF w = << >> \/ w[Len(w)] = "/" THEN << >>
  ELSE Append(BaseOf(SubSeq(w, 1, Len(w) - 1)), w[Len(w)])

DirOf(w) == SubSeq(w, 1, Len(w) - Len(BaseOf(w)))

\* tab has just been handled and its first-match listing returned a match.
C21_Case ==
  /\ Pressed(eff', "tab")
  /\ FieldsSeq(eff'.msg.line) # << >>
  /\ eff'.calls[1].ok
  /\ TrimSpace(eff'.calls[1].out) # Empty

\* C21: when the first-match listing returns a match, the last token of the
\* input is replaced by the name part of the match when the token has no
\* directory part (or the directory part "./"), and by the directory part
\* of the token followed by that name otherwise, with "/" after it exactly
\* when the directory test answers "DIR"; the other tokens are kept.
C21_RemoteCompletion ==
  [][C21_Case =>
       LET old == FieldsSeq(eff'.msg.line)
           new == FieldsSeq(m'.Input)
           n == Len(old)
           dir == IF DirOf(old[n]) \in {Empty, <<".", "/">>} THEN "" ELSE Str(DirOf(old[n]))
           name == Str(BaseOf(TrimSpace(eff'.calls[1].out)))
           slash == IF TrimSpace(eff'.calls[2].out) = <<"DIR">> THEN "/" ELSE ""
       IN /\ Len(new) = n
          /\ \A k \in 1..(n - 1) : new[k] = old[k]
          /\ Str(new[n]) = dir \o name \o slash]_vars

\* The token /app/re has been completed to /app/responses/.
C21_Witness ==
  /\ Pressed(eff, "tab")
  /\ eff.msg.line = <<"cat", " ", "/", "app", "/", "re">>
  /\ Len(eff.calls) = 2
  /\ TrimSpace(eff.calls[2].out) = <<"DIR">>
  /\ m.Input = <<"cat", " ", "/", "app", "/", "responses", "/">>

\* The dictionary words that have the Go string s as a strict prefix.
Candidates(dict, s) == {w \in dict : StrHasPrefix(w, s) /\ w # s}

\* C22: when the first-match listing returned no match, the last token is
\* replaced by the smallest, in the order of strings, of the dictionary
\* words that have it as a strict prefix, if the token has at least two
\* characters and there is such a word, the other tokens being kept;
\* otherwise the input stays as it is.  The dictionary lookup is not made
\* when the listing returned a match.
C22_DictionaryCompletion ==
  [][(Pressed(eff', "tab") /\ FieldsSeq(eff'.msg.line) # << >>) =>
       LET old == FieldsSeq(eff'.msg.line)
           new == FieldsSeq(m'.Input)
           n == Len(old)
           s == Str(old[n])
           c == Candidates(m.AutocompleteWords, s)
           noMatch == ~eff'.calls[1].ok \/ eff'.calls[1].out = Empty
       IN /\ (noMatch /\ Len(s) >= 2 /\ c # {}) =>
                /\ Len(new) = n
                /\ \A k \in 1..(n - 1) : new[k] = old[k]
                /\ Str(new[n]) \in c
                /\ \A v \in c : ~StrLess(v, Str(new[n]))
          /\ (noMatch /\ (Len(s) < 2 \/ c = {})) => m'.Input = eff'.msg.line
          /\ (~noMatch /\ c # {}) => Str(new[n]) \notin c]_vars

\* The token co has been completed to code, the smallest of code, conf and
\* conf.d.
C22_Witness ==
  /\ Pressed(eff, "tab")
  /\ eff.msg.line = <<"cat", " ", " ", "co">>
  /\ {"code", "conf", "conf.d"} \subseteq m.AutocompleteWords
  /\ m.Input = <<"cat", " ", "code">>

----------------------------------------------------------------------------
(* Elevation of the namespace policy *)

\* Whether the handler of effect e called fn.
Called(e, fn) == \E k \in 1..Len(e.calls) : e.calls[k].fn = fn

\* Whether the handler of effect e read the namespace policy successfully.
PolicyRead(e) ==
  \E k \in 1..Len(e.calls) : e.calls[k].fn = "GetPodSecurityPolicy" /\ e.calls[k].ok

\* C23: on every path that elevates, a handler that read the label as
\* "privileged" makes no write, records no original and does not set
\* ChangedPodSecurityPolicy; a handler that read another value records the
\* value read as original and writes "privileged".
C23_WriteOnlyWhenNotPrivileged ==
  [][PolicyRead(eff') /\ eff'.kind \in {"CmdResultMsg", "DebugContainerMsg"} =>
       IF TrimSpace(label[m.Namespace]) = Privileged
         THEN /\ ~Called(eff', "SetPodSecurityPolicy")
              /\ m'.OriginalPodSecurityPolicy = m.OriginalPodSecurityPolicy
              /\ m'.ChangedPodSecurityPolicy = m.ChangedPodSecurityPolicy
         ELSE /\ Called(eff', "SetPodSecurityPolicy")
              /\ m'.OriginalPodSecurityPolicy = TrimSpace(label[m.Namespace])]_vars

\* Whether the handler of effect e made a call of fn that returned an error.
Failed(e, fn) == \E k \in 1..Len(e.calls) : e.calls[k].fn = fn /\ ~e.calls[k].ok

\* Whether some line of the sequence lines starts with the words of prefix.
SomeLine(lines, prefix) == \E k \in 1..Len(lines) : HasPrefix(lines[k], prefix)

\* C24: a handler of the fallback whose read or write of the namespace policy
\* fails appends the error line of that failure, dispatches nothing, leaves
\* ChangedPodSecurityPolicy as it was, and leaves the session out of debug
\* mode with the pending flag false.
C24_PolicyFailureIsTerminal ==
  [][eff'.kind \in {"CmdResultMsg", "DebugContainerMsg"}
       /\ (Failed(eff', "GetPodSecurityPolicy") \/ Failed(eff', "SetPodSecurityPolicy")) =>
       /\ Failed(eff', "GetPodSecurityPolicy") =>
            SomeLine(eff'.appended, <<"Failed", " ", "to", " ", "get", " ", "current", " ", "policy:">>)
       /\ Failed(eff', "SetPodSecurityPolicy") =>
            SomeLine(eff'.appended, <<"Failed", " ", "to", " ", "change", " ", "policy:">>)
       /\ eff'.dispatched = << >>
       /\ m'.ChangedPodSecurityPolicy = m.ChangedPodSecurityPolicy
       /\ ~m'.UseDebugContainer
       /\ ~m'.Loading]_vars

\* A refused provisioning was answered with a policy write that failed.
C24_Witness ==
  /\ eff.kind = "DebugContainerMsg"
  /\ Failed(eff, "SetPodSecurityPolicy")
  /\ ~m.Loading /\ ~m.UseDebugContainer

----------------------------------------------------------------------------
(* The reserved forms of the shell *)

\* Whether the trimmed line c is one of the forms handleCommand handles
\* itself: the empty line, clear, /quit, /copy with arguments, cd [path].
IsReserved(c) ==
  \/ c \in {Empty, <<"clear">>, <<"/quit">>, <<"cd">>}
  \/ HasPrefix(c, <<"/copy", " ">>)
  \/ HasPrefix(c, <<"cd", " ">>)

\* The history of the model handleCommand returns for the effect e: the
\* model of the next state, or the final model when the line quits.
HistoryReturned(e, before, after) ==
  IF TrimSpace(e.msg.line) = <<"/quit">>
    THEN handleCommand([before EXCEPT !.Input = e.msg.line], NoClip, TRUE, TRUE).m.History
    ELSE after.History

\* C25: a line submitted in the shell step that is empty, clear, /quit, /copy with arguments
\* or cd [path] makes no remote call and dispatches no command; clear, /quit
\* and /copy leave the history as it was; clear empties the output log and
\* leaves the history, the working directory and the dictionary unchanged.
C25_ReservedFormsAreLocal ==
  [][m.Step = "StepShell" /\ Submitted(eff') /\ IsReserved(TrimSpace(eff'.msg.line)) =>
       LET c == TrimSpace(eff'.msg.line)
       IN /\ eff'.dispatched = << >> /\ eff'.calls = << >>
          /\ ncmd' = ncmd
          /\ BagToSet(inflight') \subseteq BagToSet(inflight)
          /\ (c \in {<<"clear">>, <<"/quit">>} \/ HasPrefix(c, <<"/copy", " ">>)) =>
               HistoryReturned(eff', m, m') = m.History
          /\ c = <<"clear">> =>
               /\ m'.Output = << >> /\ m'.OutputLines = << >>
               /\ m'.CurrentDir = m.CurrentDir
               /\ m'.AutocompleteWords = m.AutocompleteWords]_vars

\* clear was submitted in /etc after a command had filled the output log,
\* the history and the dictionary, and emptied the log only.
C25_Witness ==
  /\ Submitted(eff) /\ TrimSpace(eff.msg.line) = <<"clear">>
  /\ m.OutputLines = << >>
  /\ m.History # << >> /\ m.AutocompleteWords # {} /\ m.CurrentDir = <<"/", "etc">>

----------------------------------------------------------------------------
(* Retargeting *)

\* The fields of the model that hold the session: the selections, the
\* working directory, the output log, the dictionary, the history and its
\* cursor, the debug-mode flag, the debug container and the execution mode.
SessionFields ==
  {"Namespace", "Rtype", "OwnerName", "PodName", "Container", "CurrentDir",
   "Output", "OutputLines", "AutocompleteWords", "History", "HistIdx",
   "UseDebugContainer", "DebugContainer", "TargetRoot"}

\* C26: ctrl+r in the shell step leaves the model at namespace selection
\* with every session field at its initial value, and dispatches exactly one
\* load of the namespaces.
C26_RetargetResets ==
  [][Pressed(eff', "ctrl+r") =>
       /\ m'.Step = "StepPickNS"
       /\ \A f \in SessionFields : m'[f] = InitialModel[f]
       /\ Len(eff'.dispatched) = 1
       /\ eff'.dispatched[1].kind = "loadStep"
       /\ eff'.dispatched[1].step = "StepPickNS"]_vars

\* ctrl+r was pressed in a session for which a debug container had been
\* created.
C26_Witness ==
  /\ Pressed(eff, "ctrl+r")
  /\ m.Step = "StepPickNS" /\ m.Loading
  /\ \E k \in 1..Len(containers) : containers[k].sess = 0 /\ containers[k].ready

----------------------------------------------------------------------------
(* CreateDebugContainer: the readiness poll and the execution mode *)

\* The messages of the runs of CreateDebugContainer that created a container
\* and are waiting to be handled.
Provisioned ==
  {t.result : t \in {x \in BagToSet(inflight) :
                       x.kind = "createDebugContainerCmd" /\ x.result # NoMsg /\ x.result.probed}}

\* Whether attempt j of the poll finds the container running and the echo
\* succeeding under the answers a.
AttemptSucceeds(a, j) == j >= a.runningAt /\ j >= a.echoAt

\* A run of CreateDebugContainer has been dispatched and has not returned.
Provisioning ==
  \E t \in BagToSet(inflight) : t.kind = "createDebugContainerCmd" /\ t.result = NoMsg

\* The poll of every run that created a container made between 1 and 30
\* attempts, every attempt before the last failed, and the poll ended before
\* the thirtieth attempt only at one that succeeded.
PollBounded ==
  \A r \in Provisioned :
     /\ r.polls \in 1..PollBudget
     /\ \A j \in 1..(r.polls - 1) : ~AttemptSucceeds(r.answers, j)
     /\ r.polls < PollBudget => AttemptSucceeds(r.answers, r.polls)
     /\ r.ready <=> AttemptSucceeds(r.answers, r.polls)

NonBlank(text) == \E k \in 1..Len(text) : ~IsSpace(text[k])

\* C28: a run of CreateDebugContainer that returns without error returns the
\* mode "NSENTER:1" exactly when the probe returned no error and an output
\* that is not blank, and "/proc/1/root" otherwise.
C28_ModeFollowsProbe ==
  \A r \in Provisioned :
     /\ r.Err = NoErr
     /\ r.TargetRoot = IF ~r.answers.nsenterErr /\ NonBlank(r.answers.nsenterOut)
                         THEN <<"NSENTER:", "1">> ELSE <<"/proc/", "1", "/root">>

\* A probe returned a blank line without error and the run returned the
\* mode "/proc/1/root".
C28_Witness ==
  \E r \in Provisioned :
     /\ ~r.answers.nsenterErr /\ r.answers.nsenterOut = <<" ", "\n">>
     /\ r.TargetRoot = ProcRoot

----------------------------------------------------------------------------
(* The result of the provisioning *)

\* The handler of effect e handled a provisioning that failed with an error
\* holding none of the restrictive markers.
GenericFailure(e) ==
  /\ e.kind = "DebugContainerMsg" /\ e.msg.Err # NoErr
  /\ \A mk \in {<<"runAsNonRoot">>, <<"runAsUser=0">>, <<"PodSecurity">>} : ~Contains(e.msg.Err, mk)

\* C29: the handler of a provisioning failure that matches no restrictive
\* marker appends one error line, dispatches nothing, reads and writes no
\* policy, leaves the session out of debug mode with the debug container,
\* the execution mode, the working directory and the policy state unchanged,
\* and clears the pending flag.
C29_GenericFailureIsTerminal ==
  [][GenericFailure(eff') =>
       /\ Len(eff'.appended) = 1
       /\ HasPrefix(eff'.appended[1], <<"Failed", " ", "to", " ", "create", " ", "debug", " ", "container:">>)
       /\ eff'.dispatched = << >> /\ eff'.calls = << >>
       /\ ~m'.UseDebugContainer
       /\ m'.DebugContainer = m.DebugContainer
       /\ m'.TargetRoot = m.TargetRoot
       /\ m'.CurrentDir = m.CurrentDir
       /\ m'.OriginalPodSecurityPolicy = m.OriginalPodSecurityPolicy
       /\ m'.ChangedPodSecurityPolicy = m.ChangedPodSecurityPolicy
       /\ ~m'.Loading]_vars

\* An escaping that leaves single quotes as they are.
EscapeQuotesNone(s) == s

\* strings.ReplaceAll(s, "'", "'\"'\"'")
RECURSIVE EscapeQuotes(_)
EscapeQuotes(s) ==
  IF s = << >> THEN << >>
  ELSE (IF Head(s) = "'" THEN <<"'", "\"", "'", "\"", "'">> ELSE <<Head(s)>>)
         \o EscapeQuotes(Tail(s))

\* ExecInDebugContainer(namespace, pod, debugContainer, targetRoot, cmdline,
\* currentDir): the command line given to the shell of the debug container
\* (fullCmd), the script that lists and runs the user's command, and the
\* container whose file names that script sees: the target's, entered with
\* nsenter, or the debug container's own, where the target's root is
\* /proc/1/root.
ExecInDebugContainer(targetRoot, cmdline, currentDir) ==
  IF HasPrefix(targetRoot, <<"NSENTER:">>)
    THEN LET pid == TrimPrefix(targetRoot, <<"NSENTER:">>)
             targetCmd == IF currentDir # Empty /\ currentDir # <<"~">>
                            THEN <<"cd", " ">> \o currentDir \o <<" ", "&&", " ">> \o cmdline
                            ELSE cmdline
         IN [files |-> "target", script |-> targetCmd,
             fullCmd |-> <<"nsenter", " ", "-t", " ">> \o pid
                           \o <<" ", "-m", " ", "-u", " ", "-i", " ", "-p", " ", "--", " ", "sh", " ", "-c", " ", "'">>
                           \o EscapeQuotes(targetCmd) \o <<"'">>]
    ELSE LET fullCmd == IF currentDir # Empty /\ currentDir # <<"~">>
                          THEN <<"cd", " ">> \o targetRoot \o currentDir \o <<" ", "&&", " ">> \o cmdline
                          ELSE <<"cd", " ">> \o targetRoot \o <<" ", "&&", " ">> \o cmdline
         IN [files |-> "debug", script |-> fullCmd, fullCmd |-> fullCmd]

\* The directory the script of the remote call x lists with ls: the word
\* that follows ls, << >> when the script has no such word.
Listed(x) ==
  LET ws == FieldsSeq(x.script)
      at == {k \in 1..(Len(ws) - 1) : ws[k] = <<"ls">>}
  IN IF at = {} THEN << >> ELSE ws[(CHOOSE k \in at : \A j \in at : k <= j) + 1]

\* Whether the remote call x lists the root directory of the target
\* container: "/" where the files are the target's, /proc/1/root where
\* they are the debug container's.
ListsTargetRoot(x) ==
  \/ x.files = "target" /\ Listed(x) = <<"/">>
  \/ x.files = "debug" /\ Listed(x) = <<"/proc/", "1", "/root">>

\* C30: the handler of a successful provisioning sets the debug flag, records
\* the container name and the execution mode, sets the working directory to
\* "/" and the pending flag, and dispatches exactly one command, which runs
\* through the debug container and lists the root directory of the target
\* container, in both execution modes.
C30_AdoptsAndVerifies ==
  [][eff'.kind = "DebugContainerMsg" /\ eff'.msg.Err = NoErr =>
       /\ m'.UseDebugContainer
       /\ m'.DebugContainer = eff'.msg.DebugContainer
       /\ m'.TargetRoot = eff'.msg.TargetRoot
       /\ m'.CurrentDir = <<"/">>
       /\ m'.Loading
       /\ Len(eff'.dispatched) = 1
       /\ LET t == eff'.dispatched[1]
          IN /\ t.kind = "runCommand" /\ t.useDebug
             /\ t.debugContainer = eff'.msg.DebugContainer
             /\ ListsTargetRoot(ExecInDebugContainer(t.targetRoot, t.cmdline, t.currentDir))]_vars

----------------------------------------------------------------------------
(* The composed command *)

\* An ExecInPod that never changes directory.
ExecInPodNoCd(cmdline, currentDir) == cmdline

\* ExecInPod(namespace, pod, container, cmdline, currentDir): the command
\* line given to sh -lc in the container.
ExecInPod(cmdline, currentDir) ==
  IF currentDir # Empty
    THEN <<"cd", " ">> \o currentDir \o <<" ", "&&", " ">> \o cmdline
    ELSE cmdline

\* The commands of the sequence d as a set.
Tasks(d) == {d[k] : k \in 1..Len(d)}

\* C31: a line submitted in normal mode is dispatched for the selected
\* container with the working directory of the moment, and the command
\* composed for it is "cd <dir> && <line>" when that directory is set and
\* the line itself when it is empty; a command in flight is not changed by
\* the lines handled before its result arrives.
C31_ComposedInNormalMode ==
  [][(/\ (m.Step = "StepShell" /\ Submitted(eff') /\ ~m.UseDebugContainer) =>
          (\A t \in Tasks(eff'.dispatched) :
             LET line == TrimSpace(eff'.msg.line)
             IN /\ t.kind = "runCommand" /\ ~t.useDebug
                /\ t.ns = m.Namespace /\ t.pod = m.PodName /\ t.container = m.Container
                /\ ExecInPod(t.cmdline, t.currentDir) =
                     (IF m.CurrentDir = Empty THEN line
                      ELSE <<"cd", " ">> \o m.CurrentDir \o <<" ", "&&", " ">> \o line))
      /\ (phase' = "running" =>
            BagToSet(inflight') \subseteq BagToSet(inflight) \cup Tasks(eff'.dispatched)))]_vars

\* A command submitted in /etc is still in flight, with /etc as its
\* directory, after a cd line took the session back to the home directory.
C31_Witness ==
  /\ m.Step = "StepShell" /\ m.CurrentDir = Empty
  /\ \E t \in BagToSet(inflight) :
        /\ t.kind = "runCommand" /\ t.currentDir = <<"/", "etc">>
        /\ ExecInPod(t.cmdline, t.currentDir) = <<"cd", " ", "/", "etc", " ", "&&", " ", "ls">>

\* The texts of the sequence ss put one after the other.
RECURSIVE Flat(_)
Flat(ss) == IF ss = << >> THEN << >> ELSE Head(ss) \o Flat(Tail(ss))

\* The text s with every single quote written as '"'"'.
Quoted(s) ==
  Flat([k \in 1..Len(s) |-> IF s[k] = "'" THEN <<"'", "\"", "'", "\"", "'">> ELSE <<s[k]>>])

\* The command line the statement of the execution modes gives for the line
\* submitted in the directory dir of a session whose recorded mode is root.
ComposedInDebugMode(root, dir, line) ==
  IF Head(root) = "NSENTER:"
    THEN LET inner == IF dir = Empty \/ dir = <<"~">> THEN line
                      ELSE <<"cd", " ">> \o dir \o <<" ", "&&", " ">> \o line
         IN <<"nsenter", " ", "-t", " ">> \o Tail(root)
              \o <<" ", "-m", " ", "-u", " ", "-i", " ", "-p", " ", "--", " ", "sh", " ", "-c", " ">>
              \o <<"'">> \o Quoted(inner) \o <<"'">>
    ELSE IF dir = Empty THEN <<"cd", " ">> \o root \o <<" ", "&&", " ">> \o line
    ELSE <<"cd", " ">> \o root \o dir \o <<" ", "&&", " ">> \o line

\* C32: a line submitted in debug mode is dispatched through the debug
\* container with the recorded execution mode, and the command composed for
\* it is, for namespace entry, the nsenter invocation for the recorded
\* process id around the single-quoted, quote-escaped "cd <dir> && <line>"
\* (the line alone when the directory is empty or "~"), and for the
\* filesystem root "cd <root><dir> && <line>" ("cd <root> && <line>" when
\* the directory is empty).
C32_ComposedInDebugMode ==
  [][(m.Step = "StepShell" /\ Submitted(eff') /\ m.UseDebugContainer) =>
       (\A t \in Tasks(eff'.dispatched) :
          /\ t.kind = "runCommand" /\ t.useDebug
          /\ t.debugContainer = m.DebugContainer /\ t.targetRoot = m.TargetRoot
          /\ ExecInDebugContainer(t.targetRoot, t.cmdline, t.currentDir).fullCmd =
               ComposedInDebugMode(m.TargetRoot, m.CurrentDir, TrimSpace(eff'.msg.line)))]_vars

\* A line with single quotes was submitted in /etc in the namespace-entry
\* mode.
C32_Witness ==
  /\ Submitted(eff) /\ eff.msg.line = <<"echo", " ", "'", "a", "'">>
  /\ m.UseDebugContainer /\ m.TargetRoot = NsenterRoot /\ m.CurrentDir = <<"/", "etc">>
  /\ \E t \in BagToSet(inflight) : t.kind = "runCommand" /\ t.cmdline = eff.msg.line

----------------------------------------------------------------------------
(* The pending flag *)

\* A dispatched command or provisioning has not delivered its result.
Outstanding ==
  \E t \in BagToSet(inflight) : t.kind \in {"runCommand", "createDebugContainerCmd"}

\* C33: in the shell step Loading is true while a dispatched command or
\* provisioning has not delivered its result, and false when none is
\* outstanding.
C33_LoadingTracksOutstanding ==
  (phase = "running" /\ m.Step = "StepShell") => (m.Loading <=> Outstanding)

----------------------------------------------------------------------------
(* Remote calls and the event handler *)

\* C34: the event handler never performs a remote call itself: every call
\* of a session is made by a dispatched command that reports back with a
\* result event.
C34_HandlerMakesNoRemoteCall == eff.calls = << >>

----------------------------------------------------------------------------
(* Output ordinals *)

\* The ordinal AppendOutput gives to the next line it appends to the output
\* of mm: the length of OutputLines after the append.
NextOrdinal(mm) == Len(mm.OutputLines) + 1

\* C35: within a session the ordinals given to output lines only grow, so
\* that no ordinal is given twice: no step of the shell, clear included,
\* lowers the ordinal that the next line of the output gets.
C35_OrdinalsNeverReused ==
  [][(m.Step = "StepShell" /\ m'.Step = "StepShell" /\ phase' = "running") =>
       NextOrdinal(m') >= NextOrdinal(m)]_vars

----------------------------------------------------------------------------
(* Debug mode once adopted *)

\* C36: from a state in debug mode every step other than ctrl+r and the end
\* of the program leaves the session in debug mode, reads and writes no
\* policy and dispatches no provisioning.
C36_DebugModeIsFinal ==
  [][(m.UseDebugContainer /\ phase' = "running" /\ ~Pressed(eff', "ctrl+r")) =>
       /\ m'.UseDebugContainer
       /\ ~Called(eff', "GetPodSecurityPolicy")
       /\ ~Called(eff', "SetPodSecurityPolicy")
       /\ Creates(eff'.dispatched) = 0]_vars

----------------------------------------------------------------------------
(* Results that arrive after a retarget *)

\* The step handles the result of a command or provisioning that was
\* dispatched before the last retarget.
StaleResult ==
  /\ eff'.kind \in {"CmdResultMsg", "DebugContainerMsg"}
  /\ \E t \in BagToSet(inflight) :
        /\ t.kind \in {"runCommand", "createDebugContainerCmd"}
        /\ t.sess < sess
        /\ CopiesIn(t, inflight') < CopiesIn(t, inflight)

\* C37: the result of a call dispatched before a retarget leaves the output
\* log, the pending flag, the debug-mode flag, the debug container, the
\* working directory and the policy state of the new session as they were
\* and starts no policy write and no provisioning.
C37_StaleResultIgnored ==
  [][StaleResult =>
       /\ m'.OutputLines = m.OutputLines /\ m'.Output = m.Output
       /\ m'.Loading = m.Loading
       /\ m'.UseDebugContainer = m.UseDebugContainer
       /\ m'.DebugContainer = m.DebugContainer
       /\ m'.CurrentDir = m.CurrentDir
       /\ m'.OriginalPodSecurityPolicy = m.OriginalPodSecurityPolicy
       /\ m'.ChangedPodSecurityPolicy = m.ChangedPodSecurityPolicy
       /\ ~Called(eff', "SetPodSecurityPolicy")
       /\ Creates(eff'.dispatched) = 0]_vars


\* What the user of the history-cursor specification types: two commands,
\* a line of one blank, clear and a cd line.
CursorLines ==
  {<<"ls">>, <<"pwd">>, <<" ">>, <<"clear">>, <<"cd", " ", "/", "etc">>}

\* The model is within the bounds of the history-cursor specification.
BoundedCursor(mm) ==
  /\ Len(mm.History) <= MaxHist
  /\ Len(mm.OutputLines) <= MaxCopyLog

\* The user of the history-cursor specification works in the same shell:
\* walks the history, and submits a typed line or the line recalled, while
\* nothing is loading.
NextCursor ==
  \/ \E t \in BagToSet(inflight) : LoadResult(t, TRUE)
  \/ \E t \in BagToSet(inflight), o \in ShellOutcomes :
        CmdResult(t, o, TRUE, TRUE) /\ BoundedCursor(m')
  \/ \E val \in Picks \ {T("ns2")} : ~m.Loading /\ KeySelect(val)
  \/ \E l \in CursorLines \cup {m.Input} :
        ~m.Loading /\ KeyEnter(l, TRUE, TRUE, TRUE, "n", FALSE) /\ BoundedCursor(m')
  \/ \E k \in {"up", "down"} : ~m.Loading /\ KeyHistory(k)

SpecCursor == InitShell /\ [][NextCursor]_vars

\* The history cursor of mm is -1 or the index of an entry of its history.
CursorInRange(mm) == -1 <= mm.HistIdx /\ mm.HistIdx < Len(mm.History)

\* A line that is not the empty text has been submitted in the shell step.
LineSubmitted == m.Step = "StepShell" /\ Submitted(eff') /\ eff'.msg.line # Empty

\* C38 as stated: the history cursor is -1 or the index of an entry of the
\* history in every state, and the handler of any submitted line that is not
\* the empty text leaves the cursor at -1.
C38_AnyLineResetsCursor ==
  [][(CursorInRange(m) /\ CursorInRange(m'))
     /\ (LineSubmitted => m'.HistIdx = -1)]_vars

\* C38: the history cursor is -1 or the index of an entry of the history in
\* every state; the handler of a submitted line whose trimmed text is not
\* empty leaves the cursor at -1, and the handler of a submitted line of
\* blanks only leaves the cursor where it was.
C38_CursorInRange ==
  [][(CursorInRange(m) /\ CursorInRange(m'))
     /\ ((LineSubmitted /\ TrimSpace(eff'.msg.line) # Empty) => m'.HistIdx = -1)
     /\ ((LineSubmitted /\ TrimSpace(eff'.msg.line) = Empty) => m'.HistIdx = m.HistIdx)]_vars

\* A line of one blank has been submitted while the cursor was at the older
\* of two entries, and the cursor is still there.
C38_Witness ==
  /\ m.Step = "StepShell"
  /\ Submitted(eff) /\ eff.msg.line = <<" ">>
  /\ Len(m.History) = 2 /\ m.HistIdx = 0


----------------------------------------------------------------------------
(* The directory of a command in the filesystem-root mode *)

\* The directory the command line fullCmd changes into: the word that
\* follows its leading cd.
ChangesInto(fullCmd) == FieldsSeq(fullCmd)[2]

\* The path p is the root itself or the root followed by a path that starts
\* with "/".
AtOrBelow(p, root) ==
  /\ HasPrefix(p, root)
  /\ (Len(p) = Len(root) \/ p[Len(root) + 1] = "/")

\* C39: the command composed for a line submitted in debug mode with the
\* filesystem-root strategy changes into the target root itself or into a
\* path below it, the root followed by a path that starts with "/",
\* whatever cd lines were handled before.
C39_StaysBelowTargetRoot ==
  [][(m.Step = "StepShell" /\ Submitted(eff') /\ m.UseDebugContainer /\ m.TargetRoot = ProcRoot) =>
       (\A t \in Tasks(eff'.dispatched) :
          AtOrBelow(ChangesInto(ExecInDebugContainer(t.targetRoot, t.cmdline, t.currentDir).fullCmd),
                    ProcRoot))]_vars


----------------------------------------------------------------------------
(* The selection wizard while loads are in flight *)

\* The user of the wizard specification picks pods directly and does not
\* wait for a list to load: enter and esc are pressed while loads are in
\* flight, with at most MaxLoads of them at a time.
NextWizard ==
  \/ \E t \in BagToSet(inflight) : LoadResult(t, TRUE)
  \/ \E val \in Picks : KeySelect(val) /\ BagCardinality(inflight') <= MaxLoads
  \/ KeyEsc /\ BagCardinality(inflight') <= MaxLoads

SpecWizard == InitShell /\ [][NextWizard]_vars

\* The message handled is the result of a load for a step other than the
\* current one.
StaleLoad == eff'.kind = "LoadMsg" /\ eff'.msg.Step # m.Step

\* C40: in the selection wizard the result of a load for a step other than
\* the current one leaves the list as it is; the value chosen with enter at
\* the namespace step is a namespace and at the type step a resource type;
\* and the shell step is entered with a namespace, a pod and a container of
\* the cluster.
C40_ListBelongsToStep ==
  [][(StaleLoad => (m'.LstItems = m.LstItems /\ m'.LstTitle = m.LstTitle))
     /\ ((Pressed(eff', "enter") /\ m.Step = "StepPickNS") => m'.Namespace \in Namespaces)
     /\ ((Pressed(eff', "enter") /\ m.Step = "StepPickType") => m'.Rtype \in TypeList)
     /\ ((m.Step # "StepShell" /\ m'.Step = "StepShell") =>
           (m'.Namespace \in Namespaces /\ m'.PodName \in Pods /\ m'.Container \in PodContainers))]_vars

====
